---------------------------- MODULE Spec2Model ----------------------------
(***************************************************************************)
(* Ledger engine of the secure payment gateway: ProcessPayment,            *)
(* ProcessRefund and ProcessTopup of PaymentServiceImpl running as         *)
(* concurrent request tasks over the PostgreSQL repositories (wallets,     *)
(* transactions, idempotency_logs) and the Redis idempotency cache.        *)
(*                                                                         *)
(* The committed database state is held in wallets, transactions and       *)
(* idempotencyLogs; a request's uncommitted writes are held in dbTx[p]     *)
(* and become visible only at Commit (READ COMMITTED).  SELECT ... FOR     *)
(* UPDATE is the row lock lockHolder[w], held until commit or rollback.    *)
(* Every statement that does I/O is one step of the task that runs it.     *)
(***************************************************************************)
EXTENDS Integers, Sequences, FiniteSets, TLC

(***************************************************************************)
(* Bounds.                                                                 *)
(***************************************************************************)
\* Number of concurrent request tasks; each serves one request.
NumProcs == 3
\* Width of the signed integer that stands for Go's int64 (TLC's integers
\* are 32 bits wide, so the 64-bit arithmetic is scaled down, wrap included).
IntBits == 4

Procs == 1..NumProcs

RECURSIVE TwoPow(_)
TwoPow(n) == IF n = 0 THEN 1 ELSE 2 * TwoPow(n - 1)

MaxInt64 == TwoPow(IntBits - 1) - 1
MinInt64 == -TwoPow(IntBits - 1)

\* Go's wrapping two's-complement arithmetic on int64.
WrapInt64(x) == ((x - MinInt64) % TwoPow(IntBits)) + MinInt64
AddInt64(a, b) == WrapInt64(a + b)
SubInt64(a, b) == WrapInt64(a - b)

(***************************************************************************)
(* strconv.FormatInt(n, 10) and strconv.ParseInt(s, 10, 64): decimal       *)
(* strings are sequences of characters.                                    *)
(***************************************************************************)
DigitChars == <<"0", "1", "2", "3", "4", "5", "6", "7", "8", "9">>

IsDigit(c) == \E d \in 1..10 : DigitChars[d] = c
DigitVal(c) == (CHOOSE d \in 1..10 : DigitChars[d] = c) - 1

RECURSIVE FormatUint(_)
FormatUint(n) ==
    IF n < 10 THEN <<DigitChars[n + 1]>>
    ELSE FormatUint(n \div 10) \o <<DigitChars[(n % 10) + 1]>>

FormatInt(n) == IF n < 0 THEN <<"-">> \o FormatUint(-n) ELSE FormatUint(n)

RECURSIVE DigitsValue(_)
DigitsValue(s) ==
    IF Len(s) = 0 THEN 0
    ELSE 10 * DigitsValue(SubSeq(s, 1, Len(s) - 1)) + DigitVal(s[Len(s)])

\* [ok, val]: ok is FALSE on a syntax error or a value out of int64's range.
ParseInt(s) ==
    LET signed == Len(s) > 0 /\ s[1] \in {"-", "+"}
        body   == IF signed THEN Tail(s) ELSE s
    IN  IF Len(body) = 0 \/ \E i \in 1..Len(body) : ~IsDigit(body[i])
        THEN [ok |-> FALSE, val |-> 0]
        ELSE LET mag == DigitsValue(body)
                 v   == IF signed /\ s[1] = "-" THEN -mag ELSE mag
             IN  IF v < MinInt64 \/ v > MaxInt64
                 THEN [ok |-> FALSE, val |-> 0]
                 ELSE [ok |-> TRUE, val |-> v]

(***************************************************************************)
(* AESEncryptionService: AES-256-GCM.  A ciphertext carries the fresh      *)
(* nonce of its seal, the sealed plaintext and the authentication tag      *)
(* that binds the two; Decrypt fails when the tag does not verify.         *)
(***************************************************************************)
GcmTag(nonce, plaintext) == <<nonce, plaintext>>

Encrypt(plaintext, nonce) ==
    [nonce |-> nonce, sealed |-> plaintext, tag |-> GcmTag(nonce, plaintext)]

\* A decryption that does not verify the tag.
DecryptUnauthenticated(ciphertext) == [ok |-> TRUE, plaintext |-> ciphertext.sealed]

Decrypt(ciphertext) ==
    IF ciphertext.tag = GcmTag(ciphertext.nonce, ciphertext.sealed)
    THEN [ok |-> TRUE, plaintext |-> ciphertext.sealed]
    ELSE [ok |-> FALSE, plaintext |-> <<>>]

\* The nonce rand.Reader hands to the k-th Encrypt call of task p: never
\* the nonce of another seal.
FreshNonce(p, k) == <<p, k>>

(***************************************************************************)
(* Domain: idempotency keys, transactions, error codes.                    *)
(***************************************************************************)
BuildIdempotencyKey(merchantID, referenceID) == merchantID \o ":" \o referenceID

BuildRefundIdempotencyKey(merchantID, originalReferenceID) ==
    merchantID \o ":refund:" \o originalReferenceID

TransactionTypePayment == "PAYMENT"
TransactionTypeRefund == "REFUND"
TransactionTypeTopup == "TOPUP"

TransactionStatusSuccess == "SUCCESS"
TransactionStatusFailed == "FAILED"
TransactionStatusReversed == "REVERSED"

\* A test of the type alone, which also passes a reversed payment.
IsRefundableAnyStatus(t) == t.transactionType = TransactionTypePayment

IsRefundable(t) ==
    t.transactionType = TransactionTypePayment /\ t.status = TransactionStatusSuccess

NoError == "OK"
ErrInsufficientFunds == "PAY_001"
ErrInvalidAmount == "PAY_002"
ErrDuplicateTransaction == "PAY_003"
ErrNotFound == "PAY_004"
ErrInvalidRefund == "PAY_006"
ErrRefundAmountExceedsOriginal == "PAY_007"
InternalError == "SYS_001"
ErrEncryptionFailure == "SYS_003"

\* The absent values: a nil pointer, the zero value of a struct.
Nil == <<>>
NoCiphertext == [nonce |-> <<>>, sealed |-> <<>>, tag |-> <<>>]

NewTransaction(id, ref, merchantID, walletID, amount, amountEnc, type, sig, orig) ==
    [id |-> id, referenceID |-> ref, merchantID |-> merchantID,
     walletID |-> walletID, amount |-> amount, amountEncrypted |-> amountEnc,
     transactionType |-> type, status |-> TransactionStatusSuccess,
     signature |-> sig, originalTransactionID |-> orig]

\* json.Marshal(txn): AmountEncrypted and Signature carry the tag json:"-".
MarshalTransaction(t) ==
    [id |-> t.id, reference_id |-> t.referenceID, merchant_id |-> t.merchantID,
     wallet_id |-> t.walletID, amount |-> t.amount,
     transaction_type |-> t.transactionType, status |-> t.status,
     original_transaction_id |-> t.originalTransactionID]

\* unmarshalCachedTransaction: the fields the JSON does not carry are zero.
UnmarshalCachedTransaction(data) ==
    [id |-> data.id, referenceID |-> data.reference_id,
     merchantID |-> data.merchant_id, walletID |-> data.wallet_id,
     amount |-> data.amount, amountEncrypted |-> NoCiphertext,
     transactionType |-> data.transaction_type, status |-> data.status,
     signature |-> "", originalTransactionID |-> data.original_transaction_id]


NoTransaction ==
    [id |-> Nil, referenceID |-> "", merchantID |-> "", walletID |-> "",
     amount |-> 0, amountEncrypted |-> NoCiphertext, transactionType |-> "",
     status |-> "", signature |-> "", originalTransactionID |-> Nil]

NoWallet == [id |-> "", merchantID |-> "", currency |-> "", encryptedBalance |-> NoCiphertext]

\* uuid.New() in the one request task p serves.
NewUUID(p) == <<"tx", p>>

(***************************************************************************)
(* State.                                                                  *)
(***************************************************************************)
VARIABLES
    wallets,          \* committed rows of table wallets: id -> row
    transactions,     \* committed rows of table transactions
    idempotencyLogs,  \* committed rows of table idempotency_logs
    cache,            \* Redis idempotency cache: set of [key, value]
    lockHolder,       \* wallet id -> set of tasks holding its row lock
    dbTx,             \* per task: its open pgx.Tx and uncommitted writes
    pc,               \* per task: the statement it executes next
    req,              \* per task: the request it serves
    loc,              \* per task: local variables of the running function
    result,           \* per task: what the function returned, and where
    given,            \* the setting: the requests that may arrive and the
                      \* balance the wallet held before they did
    now,              \* time.Now(), in ticks of TimeUnit seconds
    nonces,           \* Redis nonce store: set of [key, expiresAt]
    auth,             \* per authentication task: request and outcome of HMACAuth
    endpoint,         \* what the merchant's webhook endpoint may answer
    webhookLogs,      \* rows of table webhook_delivery_logs
    delivery,         \* per task: the deliverWithRetries goroutine it started
    response          \* per task: what the HTTP handler answered

vars == <<wallets, transactions, idempotencyLogs, cache, lockHolder,
          dbTx, pc, req, loc, result, given,
          now, nonces, auth, endpoint, webhookLogs, delivery, response>>

\* The state of the ledger engine, and the state around it.
ledger == <<wallets, transactions, idempotencyLogs, cache, lockHolder,
            dbTx, pc, req, loc, result>>
authState == <<now, nonces, auth>>
webhookState == <<endpoint, webhookLogs, delivery, response>>
\* What a step of the ledger engine never touches.
around == <<given, authState, webhookState>>

committed == <<wallets, transactions, idempotencyLogs>>

NoDbTx ==
    [active |-> FALSE, balanceUpdates |-> {}, inserts |-> {},
     statusUpdates |-> {}, idempotencyInserts |-> {}]

NoLocals ==
    [wallet |-> NoWallet, origTx |-> NoTransaction, refundAmount |-> 0,
     newBalanceEnc |-> NoCiphertext, txn |-> NoTransaction, idempKey |-> ""]

NoRequest ==
    [op |-> "", merchantID |-> "", referenceID |-> "", amount |-> 0,
     hasAmount |-> FALSE, currency |-> ""]

NoResult == [txn |-> NoTransaction, err |-> "", at |-> ""]

\* Number of concurrent requests passing through HMACAuth.
NumAuth == 2
AuthTasks == 1..NumAuth

\* An HTTP request as HMACAuth reads it: an absent header reads as empty.
NoAuthRequest ==
    [accessKey |-> "", signature |-> "", timestamp |-> <<>>, nonce |-> "",
     method |-> "", path |-> "", body |-> ""]

NoAuth ==
    [pc |-> "idle", request |-> NoAuthRequest, merchantID |-> "",
     outcome |-> "", next |-> FALSE, at |-> 0, called |-> FALSE,
     isNew |-> FALSE, nonceErr |-> FALSE]

\* domain.WebhookDeliveryLog; a nil pointer field is the empty set.
NoDeliveryLog ==
    [id |-> Nil, transactionID |-> Nil, merchantID |-> "", attempt |-> 0,
     status |-> "", httpStatus |-> {}, lastError |-> {}, nextRetryAt |-> {}]

\* A deliverWithRetries goroutine: its position, its locals, and what it
\* has done so far (seconds slept, POSTs sent, a 2xx received).
NoDelivery ==
    [pc |-> "none", attempt |-> 0, urlOK |-> TRUE, log |-> NoDeliveryLog,
     waits |-> <<>>, posts |-> 0, got2xx |-> FALSE]

\* A handler's progress after the service call: EnqueueWebhook called, its
\* error, the response written.
NoResponse ==
    [enqueued |-> FALSE, enqueueErr |-> FALSE, sent |-> FALSE, err |-> "",
     body |-> {}]

(***************************************************************************)
(* Inputs.                                                                 *)
(***************************************************************************)
Merchant1 == "m1"
Wallet1 == "w1"
References == {"A", "B"}
\* Balances the wallet may hold when the requests arrive.
InitBalances == {0, 2}
\* Largest amount of the concurrent payments of InitPayments.
MaxPaymentAmount == 3

\* A request: hasAmount is FALSE when RefundRequest.Amount is the nil pointer.
Request(op, references, amounts, hasAmount, currencies) ==
    [op : {op}, merchantID : {Merchant1}, referenceID : references,
     amount : amounts, hasAmount : {hasAmount}, currency : currencies]

PaymentRequests ==
    Request("payment", References, {1, 2}, TRUE, {"VND"})
    \cup Request("payment", {"A"}, {0}, TRUE, {"VND"})
    \cup Request("payment", {"A"}, {1}, TRUE, {"USD"})

RefundRequests ==
    Request("refund", {"A"}, {0, 1, MaxInt64}, TRUE, {""})
    \cup Request("refund", References, {0}, FALSE, {""})

TopupRequests ==
    Request("topup", {""}, {0, 1, MaxInt64}, TRUE, {"VND"})
    \cup Request("topup", {""}, {1}, TRUE, {"USD"})

(***************************************************************************)
(* Repositories and cache (adapter/storage).                               *)
(***************************************************************************)
\* A cache lookup that never finds the entry.
IdempotencyCacheGetMisses(key) == {}

\* IdempotencyCache.Get: the value under key, or none.
IdempotencyCacheGet(key) == {e.value : e \in {c \in cache : c.key = key}}

\* IdempotencyCache.Set: SET overwrites.
IdempotencyCacheSet(key, value) ==
    {c \in cache : c.key # key} \cup {[key |-> key, value |-> value]}

\* A durable lookup that never finds the record.
IdempotencyRepoGetMisses(key) == {}

\* IdempotencyRepo.Get: SELECT ... WHERE key = $1 on the pool.
IdempotencyRepoGet(key) == {l \in idempotencyLogs : l.key = key}

\* WalletRepo.GetByMerchantIDForUpdate: the rows the SELECT matches.
WalletsByMerchant(merchantID, currency) ==
    {w \in DOMAIN wallets :
        wallets[w].merchantID = merchantID /\ wallets[w].currency = currency}

\* SELECT without FOR UPDATE: the read waits for nobody.
LockFreeWithoutForUpdate(w, p) == TRUE

\* A row lock is granted when no other transaction holds it.
LockFree(w, p) == lockHolder[w] \subseteq {p}

\* A rollback that drops the writes and leaves the row locks in place.
RollbackKeepsLocks(p) ==
    /\ dbTx' = [dbTx EXCEPT ![p] = NoDbTx]
    /\ lockHolder' = lockHolder

\* pgx.Tx.Rollback (deferred): drops the uncommitted writes, frees the locks.
Rollback(p) ==
    /\ dbTx' = [dbTx EXCEPT ![p] = NoDbTx]
    /\ lockHolder' = [w \in DOMAIN lockHolder |-> lockHolder[w] \ {p}]

\* idempotency_logs without its primary key: every INSERT is accepted.
IdempotencyKeyTakenWithoutPrimaryKey(key) == FALSE

\* The primary key of idempotency_logs: an INSERT of a present key fails.
IdempotencyKeyTaken(key) == \E l \in idempotencyLogs : l.key = key

\* UPDATE transactions SET status = ... WHERE id = ...
ApplyStatusUpdates(rows, updates) ==
    {IF \E u \in updates : u.id = t.id
        THEN [t EXCEPT !.status = (CHOOSE u \in updates : u.id = t.id).status]
        ELSE t : t \in rows}

\* Rows a transaction writes.
BalanceUpdate(walletID, encryptedBalance) ==
    [walletID |-> walletID, encryptedBalance |-> encryptedBalance]

\* An UPDATE that leaves the original as it was.
StatusUpdateKeepsSuccess(id, status) == [id |-> id, status |-> TransactionStatusSuccess]

StatusUpdate(id, status) == [id |-> id, status |-> status]

\* A record that does not name its transaction.
IdempotencyLogWithoutTransaction(key, txn) ==
    [key |-> key, transactionID |-> Nil, responseJSON |-> MarshalTransaction(txn)]

IdempotencyLog(key, txn) ==
    [key |-> key, transactionID |-> txn.id, responseJSON |-> MarshalTransaction(txn)]

\* pgx.Tx.Commit: the writes of the transaction become the committed state.
CommitWrites(p) ==
    /\ wallets' = [w \in DOMAIN wallets |->
          IF \E u \in dbTx[p].balanceUpdates : u.walletID = w
          THEN [wallets[w] EXCEPT !.encryptedBalance =
                  (CHOOSE u \in dbTx[p].balanceUpdates : u.walletID = w).encryptedBalance]
          ELSE wallets[w]]
    /\ transactions' =
          ApplyStatusUpdates(transactions \cup dbTx[p].inserts, dbTx[p].statusUpdates)
    /\ idempotencyLogs' = idempotencyLogs \cup dbTx[p].idempotencyInserts
    /\ dbTx' = [dbTx EXCEPT ![p] = NoDbTx]
    /\ lockHolder' = [w \in DOMAIN lockHolder |-> lockHolder[w] \ {p}]

\* return txn, err
Return(p, txn, err) ==
    /\ pc' = [pc EXCEPT ![p] = "done"]
    /\ result' = [result EXCEPT ![p] = [txn |-> txn, err |-> err, at |-> pc[p]]]
    /\ loc' = [loc EXCEPT ![p] = NoLocals]

Goto(p, label) == pc' = [pc EXCEPT ![p] = label]

\* Request tasks are anonymous: they are numbered in the order they arrive.
Arrives(p) == pc[p] = "idle" /\ \A q \in Procs : q < p => pc[q] # "idle"

(***************************************************************************)
(* Init: one registered merchant with its default VND wallet.              *)
(***************************************************************************)
SealedBalance(b) == Encrypt(FormatInt(b), <<0, 0>>)

\* The ledger before the requests arrive: the wallet row holds the given
\* ciphertext, no request has been served.
InitLedger(encryptedBalance) ==
    /\ wallets = [w \in {Wallet1} |->
          [id |-> Wallet1, merchantID |-> Merchant1, currency |-> "VND",
           encryptedBalance |-> encryptedBalance]]
    /\ transactions = {}
    /\ idempotencyLogs = {}
    /\ cache = {}
    /\ lockHolder = [w \in {Wallet1} |-> {}]
    /\ dbTx = [p \in Procs |-> NoDbTx]
    /\ pc = [p \in Procs |-> "idle"]
    /\ req = [p \in Procs |-> NoRequest]
    /\ loc = [p \in Procs |-> NoLocals]
    /\ result = [p \in Procs |-> NoResult]

\* Nothing has reached the middleware or the webhook dispatcher.
InitAround ==
    /\ now = 0
    /\ nonces = {}
    /\ auth = [a \in AuthTasks |-> NoAuth]
    /\ endpoint = {}
    /\ webhookLogs = {}
    /\ delivery = [p \in Procs |-> NoDelivery]
    /\ response = [p \in Procs |-> NoResponse]

Init ==
    \E b \in InitBalances :
        /\ InitAround
        /\ InitLedger(SealedBalance(b))
        /\ given = [balance |-> b,
                    requests |-> PaymentRequests \cup RefundRequests \cup TopupRequests]

(***************************************************************************)
(* ProcessPayment.                                                         *)
(***************************************************************************)
\* No funds check at all.
SufficientFundsUnchecked(currentBalance, amount) == TRUE

\* Business rule: sufficient funds.
SufficientFunds(currentBalance, amount) == ~(currentBalance < amount)

PaymentNewBalance(currentBalance, amount) == SubInt64(currentBalance, amount)

\* Entry: amount validation, idempotency key.
PaymentStart(p) ==
    /\ Arrives(p)
    /\ \E r \in {g \in given.requests : g.op = "payment"} :
          /\ req' = [req EXCEPT ![p] = r]
          /\ IF r.amount <= 0
             THEN Return(p, NoTransaction, ErrInvalidAmount)
             ELSE /\ Goto(p, "payCacheGet")
                  /\ loc' = [loc EXCEPT ![p].idempKey =
                               BuildIdempotencyKey(r.merchantID, r.referenceID)]
                  /\ UNCHANGED result
    /\ UNCHANGED <<around, committed, cache, lockHolder, dbTx>>

\* Layer 1: Redis idempotency check.
PaymentCacheGet(p) ==
    /\ pc[p] = "payCacheGet"
    /\ LET cached == IdempotencyCacheGet(loc[p].idempKey)
       IN  IF cached # {}
           THEN \E v \in cached : Return(p, UnmarshalCachedTransaction(v), NoError)
           ELSE Goto(p, "payIdemGet") /\ UNCHANGED <<loc, result>>
    /\ UNCHANGED <<around, committed, cache, lockHolder, dbTx, req>>

\* Layer 2: DB idempotency check.
PaymentIdemGet(p) ==
    /\ pc[p] = "payIdemGet"
    /\ LET logs == IdempotencyRepoGet(loc[p].idempKey)
       IN  IF logs # {}
           THEN \E l \in logs :
                   Return(p, UnmarshalCachedTransaction(l.responseJSON), NoError)
           ELSE Goto(p, "payBegin") /\ UNCHANGED <<loc, result>>
    /\ UNCHANGED <<around, committed, cache, lockHolder, dbTx, req>>

\* Begin database transaction.
PaymentBegin(p) ==
    /\ pc[p] = "payBegin"
    /\ dbTx' = [dbTx EXCEPT ![p] = [NoDbTx EXCEPT !.active = TRUE]]
    /\ Goto(p, "payLockWallet")
    /\ UNCHANGED <<around, committed, cache, lockHolder, req, loc, result>>

\* Lock & get wallet, decrypt balance, check funds, build the new balance
\* and the transaction record.
PaymentLockWallet(p) ==
    /\ pc[p] = "payLockWallet"
    /\ LET r  == req[p]
           ws == WalletsByMerchant(r.merchantID, r.currency)
       IN  IF ws = {}
           THEN Return(p, NoTransaction, ErrNotFound) /\ Rollback(p)
           ELSE \E w \in ws :
                /\ LockFree(w, p)
                /\ LET dec == Decrypt(wallets[w].encryptedBalance)
                       cur == ParseInt(dec.plaintext)
                   IN  IF ~dec.ok
                       THEN Return(p, NoTransaction, ErrEncryptionFailure) /\ Rollback(p)
                       ELSE IF ~cur.ok
                       THEN Return(p, NoTransaction, InternalError) /\ Rollback(p)
                       ELSE IF ~SufficientFunds(cur.val, r.amount)
                       THEN Return(p, NoTransaction, ErrInsufficientFunds) /\ Rollback(p)
                       ELSE
                         /\ lockHolder' = [lockHolder EXCEPT ![w] = {p}]
                         /\ loc' = [loc EXCEPT
                              ![p].wallet = wallets[w],
                              ![p].newBalanceEnc =
                                  Encrypt(FormatInt(PaymentNewBalance(cur.val, r.amount)),
                                          FreshNonce(p, 1)),
                              ![p].txn =
                                  NewTransaction(NewUUID(p), r.referenceID, r.merchantID, w,
                                      r.amount,
                                      Encrypt(FormatInt(r.amount), FreshNonce(p, 2)),
                                      TransactionTypePayment, "sig", Nil)]
                         /\ Goto(p, "payPersist")
                         /\ UNCHANGED <<dbTx, result>>
    /\ UNCHANGED <<around, committed, cache, req>>

\* Persist: update wallet balance, create transaction, idempotency log.
\* The INSERT into idempotency_logs fails on a key that is present.
PaymentPersist(p) ==
    /\ pc[p] = "payPersist"
    /\ IF IdempotencyKeyTaken(loc[p].idempKey)
       THEN Return(p, NoTransaction, InternalError) /\ Rollback(p)
       ELSE /\ dbTx' = [dbTx EXCEPT
                  ![p].balanceUpdates = {BalanceUpdate(loc[p].wallet.id, loc[p].newBalanceEnc)},
                  ![p].inserts = {loc[p].txn},
                  ![p].idempotencyInserts = {IdempotencyLog(loc[p].idempKey, loc[p].txn)}]
            /\ Goto(p, "payCommit")
            /\ UNCHANGED <<lockHolder, loc, result>>
    /\ UNCHANGED <<around, committed, cache, req>>

\* Commit.
PaymentCommit(p) ==
    /\ pc[p] = "payCommit"
    /\ CommitWrites(p)
    /\ Goto(p, "payCacheSet")
    /\ UNCHANGED <<around, cache, req, loc, result>>

\* Post-process: cache in Redis, return txn.
PaymentCacheSet(p) ==
    /\ pc[p] = "payCacheSet"
    /\ cache' = IdempotencyCacheSet(loc[p].idempKey, MarshalTransaction(loc[p].txn))
    /\ Return(p, loc[p].txn, NoError)
    /\ UNCHANGED <<around, committed, lockHolder, dbTx, req>>

(***************************************************************************)
(* ProcessRefund.                                                          *)
(***************************************************************************)
RefundNewBalance(currentBalance, refundAmount) == AddInt64(currentBalance, refundAmount)

RefundReference(originalReferenceID) == "REFUND-" \o originalReferenceID

\* A lookup by reference alone, without merchant_id = $1.
GetByReferenceAnyMerchant(merchantID, referenceID) ==
    {t \in transactions : t.referenceID = referenceID}

\* TransactionRepo.GetByReference: the rows the SELECT matches; QueryRow
\* scans the first of them, in no stated order.
GetByReference(merchantID, referenceID) ==
    {t \in transactions : t.merchantID = merchantID /\ t.referenceID = referenceID}

\* TransactionRepo.CheckRefundExists.
CheckRefundExists(originalTxID) ==
    \E t \in transactions :
        /\ t.originalTransactionID = originalTxID
        /\ t.transactionType = TransactionTypeRefund
        /\ t.status # TransactionStatusFailed

\* Entry: idempotency key.
RefundStart(p) ==
    /\ Arrives(p)
    /\ \E r \in {g \in given.requests : g.op = "refund"} :
          /\ req' = [req EXCEPT ![p] = r]
          /\ loc' = [loc EXCEPT ![p].idempKey =
                       BuildRefundIdempotencyKey(r.merchantID, r.referenceID)]
    /\ Goto(p, "refCacheGet")
    /\ UNCHANGED <<around, committed, cache, lockHolder, dbTx, result>>

\* Layer 1: Redis idempotency check.
RefundCacheGet(p) ==
    /\ pc[p] = "refCacheGet"
    /\ LET cached == IdempotencyCacheGet(loc[p].idempKey)
       IN  IF cached # {}
           THEN \E v \in cached : Return(p, UnmarshalCachedTransaction(v), NoError)
           ELSE Goto(p, "refIdemGet") /\ UNCHANGED <<loc, result>>
    /\ UNCHANGED <<around, committed, cache, lockHolder, dbTx, req>>

\* Layer 2: DB idempotency check.
RefundIdemGet(p) ==
    /\ pc[p] = "refIdemGet"
    /\ LET logs == IdempotencyRepoGet(loc[p].idempKey)
       IN  IF logs # {}
           THEN \E l \in logs :
                   Return(p, UnmarshalCachedTransaction(l.responseJSON), NoError)
           ELSE Goto(p, "refFindOriginal") /\ UNCHANGED <<loc, result>>
    /\ UNCHANGED <<around, committed, cache, lockHolder, dbTx, req>>

\* Find original transaction.
RefundFindOriginal(p) ==
    /\ pc[p] = "refFindOriginal"
    /\ LET rows == GetByReference(req[p].merchantID, req[p].referenceID)
       IN  IF rows = {}
           THEN Return(p, NoTransaction, ErrNotFound)
           ELSE \E origTx \in rows :
                   IF ~IsRefundable(origTx)
                   THEN Return(p, NoTransaction, ErrInvalidRefund)
                   ELSE /\ loc' = [loc EXCEPT ![p].origTx = origTx]
                        /\ Goto(p, "refCheckExists")
                        /\ UNCHANGED result
    /\ UNCHANGED <<around, committed, cache, lockHolder, dbTx, req>>

\* The same checks without the bound on the refund amount.
RefundCheckExistsUncapped(p) ==
    /\ pc[p] = "refCheckExists"
    /\ LET origTx == loc[p].origTx
           r      == req[p]
       IN  IF CheckRefundExists(origTx.id)
           THEN Return(p, NoTransaction, ErrDuplicateTransaction)
           ELSE IF r.hasAmount /\ r.amount <= 0
           THEN Return(p, NoTransaction, ErrInvalidAmount)
           ELSE /\ loc' = [loc EXCEPT ![p].refundAmount =
                             IF r.hasAmount THEN r.amount ELSE origTx.amount]
                /\ Goto(p, "refBegin")
                /\ UNCHANGED result
    /\ UNCHANGED <<around, committed, cache, lockHolder, dbTx, req>>

\* Check no existing refund; determine refund amount.
RefundCheckExists(p) ==
    /\ pc[p] = "refCheckExists"
    /\ LET origTx == loc[p].origTx
           r      == req[p]
       IN  IF CheckRefundExists(origTx.id)
           THEN Return(p, NoTransaction, ErrDuplicateTransaction)
           ELSE IF r.hasAmount /\ r.amount <= 0
           THEN Return(p, NoTransaction, ErrInvalidAmount)
           ELSE IF r.hasAmount /\ r.amount > origTx.amount
           THEN Return(p, NoTransaction, ErrRefundAmountExceedsOriginal)
           ELSE /\ loc' = [loc EXCEPT ![p].refundAmount =
                             IF r.hasAmount THEN r.amount ELSE origTx.amount]
                /\ Goto(p, "refBegin")
                /\ UNCHANGED result
    /\ UNCHANGED <<around, committed, cache, lockHolder, dbTx, req>>

\* Begin database transaction.
RefundBegin(p) ==
    /\ pc[p] = "refBegin"
    /\ dbTx' = [dbTx EXCEPT ![p] = [NoDbTx EXCEPT !.active = TRUE]]
    /\ Goto(p, "refLockWallet")
    /\ UNCHANGED <<around, committed, cache, lockHolder, req, loc, result>>

\* Lock & get wallet by id, decrypt balance, add the refund back, build the
\* refund transaction record.
RefundLockWallet(p) ==
    /\ pc[p] = "refLockWallet"
    /\ LET r == req[p]
           w == loc[p].origTx.walletID
       IN  IF w \notin DOMAIN wallets
           THEN Return(p, NoTransaction, ErrNotFound) /\ Rollback(p)
           ELSE
             /\ LockFree(w, p)
             /\ LET dec == Decrypt(wallets[w].encryptedBalance)
                    cur == ParseInt(dec.plaintext)
                IN  IF ~dec.ok
                    THEN Return(p, NoTransaction, ErrEncryptionFailure) /\ Rollback(p)
                    ELSE IF ~cur.ok
                    THEN Return(p, NoTransaction, InternalError) /\ Rollback(p)
                    ELSE
                      /\ lockHolder' = [lockHolder EXCEPT ![w] = {p}]
                      /\ loc' = [loc EXCEPT
                           ![p].wallet = wallets[w],
                           ![p].newBalanceEnc =
                               Encrypt(FormatInt(RefundNewBalance(cur.val, loc[p].refundAmount)),
                                       FreshNonce(p, 1)),
                           ![p].txn =
                               NewTransaction(NewUUID(p), RefundReference(r.referenceID),
                                   r.merchantID, w, loc[p].refundAmount,
                                   Encrypt(FormatInt(loc[p].refundAmount), FreshNonce(p, 2)),
                                   TransactionTypeRefund, "sig", loc[p].origTx.id)]
                      /\ Goto(p, "refPersist")
                      /\ UNCHANGED <<dbTx, result>>
    /\ UNCHANGED <<around, committed, cache, req>>

\* Persist: update wallet balance, create refund transaction, mark the
\* original transaction as REVERSED, idempotency log.
RefundPersist(p) ==
    /\ pc[p] = "refPersist"
    /\ IF IdempotencyKeyTaken(loc[p].idempKey)
       THEN Return(p, NoTransaction, InternalError) /\ Rollback(p)
       ELSE /\ dbTx' = [dbTx EXCEPT
                  ![p].balanceUpdates = {BalanceUpdate(loc[p].wallet.id, loc[p].newBalanceEnc)},
                  ![p].inserts = {loc[p].txn},
                  ![p].statusUpdates =
                      {StatusUpdate(loc[p].origTx.id, TransactionStatusReversed)},
                  ![p].idempotencyInserts = {IdempotencyLog(loc[p].idempKey, loc[p].txn)}]
            /\ Goto(p, "refCommit")
            /\ UNCHANGED <<lockHolder, loc, result>>
    /\ UNCHANGED <<around, committed, cache, req>>

\* Commit.
RefundCommit(p) ==
    /\ pc[p] = "refCommit"
    /\ CommitWrites(p)
    /\ Goto(p, "refCacheSet")
    /\ UNCHANGED <<around, cache, req, loc, result>>

\* Post-process: cache in Redis, return txn.
RefundCacheSet(p) ==
    /\ pc[p] = "refCacheSet"
    /\ cache' = IdempotencyCacheSet(loc[p].idempKey, MarshalTransaction(loc[p].txn))
    /\ Return(p, loc[p].txn, NoError)
    /\ UNCHANGED <<around, committed, lockHolder, dbTx, req>>

(***************************************************************************)
(* ProcessTopup.                                                           *)
(***************************************************************************)
TopupNewBalance(currentBalance, amount) == AddInt64(currentBalance, amount)

\* fmt.Sprintf("TOPUP-%s-%d", merchantID[:8], now.UnixMilli()); the clock is
\* not part of the state.
TopupReference(merchantID) == "TOPUP-" \o merchantID \o "-now"

\* Entry: amount validation.
TopupStart(p) ==
    /\ Arrives(p)
    /\ \E r \in {g \in given.requests : g.op = "topup"} :
          /\ req' = [req EXCEPT ![p] = r]
          /\ IF r.amount <= 0
             THEN Return(p, NoTransaction, ErrInvalidAmount)
             ELSE Goto(p, "topBegin") /\ UNCHANGED <<loc, result>>
    /\ UNCHANGED <<around, committed, cache, lockHolder, dbTx>>

\* Begin database transaction.
TopupBegin(p) ==
    /\ pc[p] = "topBegin"
    /\ dbTx' = [dbTx EXCEPT ![p] = [NoDbTx EXCEPT !.active = TRUE]]
    /\ Goto(p, "topLockWallet")
    /\ UNCHANGED <<around, committed, cache, lockHolder, req, loc, result>>

\* Lock & get wallet, decrypt balance, add funds, build the transaction record.
TopupLockWallet(p) ==
    /\ pc[p] = "topLockWallet"
    /\ LET r  == req[p]
           ws == WalletsByMerchant(r.merchantID, r.currency)
       IN  IF ws = {}
           THEN Return(p, NoTransaction, ErrNotFound) /\ Rollback(p)
           ELSE \E w \in ws :
                /\ LockFree(w, p)
                /\ LET dec == Decrypt(wallets[w].encryptedBalance)
                       cur == ParseInt(dec.plaintext)
                   IN  IF ~dec.ok
                       THEN Return(p, NoTransaction, ErrEncryptionFailure) /\ Rollback(p)
                       ELSE IF ~cur.ok
                       THEN Return(p, NoTransaction, InternalError) /\ Rollback(p)
                       ELSE
                         /\ lockHolder' = [lockHolder EXCEPT ![w] = {p}]
                         /\ loc' = [loc EXCEPT
                              ![p].wallet = wallets[w],
                              ![p].newBalanceEnc =
                                  Encrypt(FormatInt(TopupNewBalance(cur.val, r.amount)),
                                          FreshNonce(p, 1)),
                              ![p].txn =
                                  NewTransaction(NewUUID(p), TopupReference(r.merchantID),
                                      r.merchantID, w, r.amount,
                                      Encrypt(FormatInt(r.amount), FreshNonce(p, 2)),
                                      TransactionTypeTopup, "SYSTEM_TOPUP", Nil)]
                         /\ Goto(p, "topPersist")
                         /\ UNCHANGED <<dbTx, result>>
    /\ UNCHANGED <<around, committed, cache, req>>

\* Persist: update wallet balance, create transaction.
TopupPersist(p) ==
    /\ pc[p] = "topPersist"
    /\ dbTx' = [dbTx EXCEPT
          ![p].balanceUpdates = {BalanceUpdate(loc[p].wallet.id, loc[p].newBalanceEnc)},
          ![p].inserts = {loc[p].txn}]
    /\ Goto(p, "topCommit")
    /\ UNCHANGED <<around, committed, cache, lockHolder, req, loc, result>>

\* Commit, return txn.
TopupCommit(p) ==
    /\ pc[p] = "topCommit"
    /\ CommitWrites(p)
    /\ Return(p, loc[p].txn, NoError)
    /\ UNCHANGED <<around, cache, req>>

(***************************************************************************)
(* Infrastructure failures: a statement on PostgreSQL or Redis returns an  *)
(* error.  A database error is wrapped as InternalError and the deferred   *)
(* Rollback runs; a Redis error is logged and the function goes on.        *)
(***************************************************************************)
\* An error reported after the writes became durable.
StoreFailureAfterWrites(p) ==
    /\ Return(p, NoTransaction, InternalError)
    /\ CommitWrites(p)
    /\ UNCHANGED <<around, cache, req>>

StoreFailure(p) ==
    /\ Return(p, NoTransaction, InternalError)
    /\ Rollback(p)
    /\ UNCHANGED <<around, committed, cache, req>>

\* A failed commit whose response is cached all the same.
PaymentStoreFaultStillCaches(p) ==
    /\ pc[p] \in {"payIdemGet", "payBegin", "payLockWallet", "payPersist", "payCommit"}
    /\ Return(p, NoTransaction, InternalError)
    /\ Rollback(p)
    /\ cache' = IF pc[p] = "payCommit"
                THEN IdempotencyCacheSet(loc[p].idempKey, MarshalTransaction(loc[p].txn))
                ELSE cache
    /\ UNCHANGED <<around, committed, req>>

PaymentStoreFault(p) ==
    /\ pc[p] \in {"payIdemGet", "payBegin", "payLockWallet", "payPersist", "payCommit"}
    /\ StoreFailure(p)

RefundStoreFault(p) ==
    /\ pc[p] \in {"refIdemGet", "refFindOriginal", "refCheckExists", "refBegin",
                  "refLockWallet", "refPersist", "refCommit"}
    /\ StoreFailure(p)

TopupStoreFault(p) ==
    /\ pc[p] \in {"topBegin", "topLockWallet", "topPersist", "topCommit"}
    /\ StoreFailure(p)

\* redis idempotency check failed, falling through to DB.
PaymentCacheGetFault(p) ==
    /\ pc[p] = "payCacheGet"
    /\ Goto(p, "payIdemGet")
    /\ UNCHANGED <<around, committed, cache, lockHolder, dbTx, req, loc, result>>

RefundCacheGetFault(p) ==
    /\ pc[p] = "refCacheGet"
    /\ Goto(p, "refIdemGet")
    /\ UNCHANGED <<around, committed, cache, lockHolder, dbTx, req, loc, result>>

\* The Set error returned to the caller instead of being logged.
PaymentCacheSetFaultFails(p) ==
    /\ pc[p] = "payCacheSet"
    /\ Return(p, NoTransaction, InternalError)
    /\ UNCHANGED <<around, committed, cache, lockHolder, dbTx, req>>

\* failed to cache idempotency in redis: warned, the transaction is returned.
PaymentCacheSetFault(p) ==
    /\ pc[p] = "payCacheSet"
    /\ Return(p, loc[p].txn, NoError)
    /\ UNCHANGED <<around, committed, cache, lockHolder, dbTx, req>>

RefundCacheSetFault(p) ==
    /\ pc[p] = "refCacheSet"
    /\ Return(p, loc[p].txn, NoError)
    /\ UNCHANGED <<around, committed, cache, lockHolder, dbTx, req>>

(***************************************************************************)
(* The system: request tasks run concurrently, one statement at a time.    *)
(***************************************************************************)
PaymentStep(p) ==
    \/ PaymentStart(p)
    \/ PaymentCacheGet(p)
    \/ PaymentIdemGet(p)
    \/ PaymentBegin(p)
    \/ PaymentLockWallet(p)
    \/ PaymentPersist(p)
    \/ PaymentCommit(p)
    \/ PaymentCacheSet(p)

RefundStep(p) ==
    \/ RefundStart(p)
    \/ RefundCacheGet(p)
    \/ RefundIdemGet(p)
    \/ RefundFindOriginal(p)
    \/ RefundCheckExists(p)
    \/ RefundBegin(p)
    \/ RefundLockWallet(p)
    \/ RefundPersist(p)
    \/ RefundCommit(p)
    \/ RefundCacheSet(p)

TopupStep(p) ==
    \/ TopupStart(p)
    \/ TopupBegin(p)
    \/ TopupLockWallet(p)
    \/ TopupPersist(p)
    \/ TopupCommit(p)

FaultStep(p) ==
    \/ PaymentStoreFault(p)
    \/ RefundStoreFault(p)
    \/ TopupStoreFault(p)
    \/ PaymentCacheGetFault(p)
    \/ RefundCacheGetFault(p)
    \/ PaymentCacheSetFault(p)
    \/ RefundCacheSetFault(p)

\* Payment, Refund and Top-up requests on a healthy infrastructure.
Next == \E p \in Procs : PaymentStep(p) \/ RefundStep(p) \/ TopupStep(p)

Spec == Init /\ [][Next]_vars

\* Payments with one amount on a wallet of any balance.
PaymentsOf(amount) == Request("payment", {"A", "B", "C"}, {amount}, TRUE, {"VND"})

InitPayments ==
    \E b \in 0..MaxInt64, a \in 1..MaxPaymentAmount :
        /\ InitAround
        /\ InitLedger(SealedBalance(b))
        /\ given = [balance |-> b, requests |-> PaymentsOf(a)]

NextPayments == \E p \in Procs : PaymentStep(p)

SpecPayments == InitPayments /\ [][NextPayments]_vars

\* The same requests when PostgreSQL and Redis may fail, on a wallet row
\* that may have been damaged.
FaultRequests ==
    {r \in PaymentRequests : r.referenceID = "A" /\ r.amount > 0}
    \cup {r \in RefundRequests : r.referenceID = "A" /\ (r.amount = 1 \/ ~r.hasAmount)}
    \cup {r \in TopupRequests : r.amount > 0}

TamperedBalance == [SealedBalance(2) EXCEPT !.sealed = FormatInt(MaxInt64)]
MalformedBalance == Encrypt(<<"2", ".", "0">>, <<0, 0>>)

InitFaults ==
    \E c \in {SealedBalance(2), TamperedBalance, MalformedBalance} :
        /\ InitAround
        /\ InitLedger(c)
        /\ given = [balance |-> 2, requests |-> FaultRequests]

NextFaults ==
    \E p \in Procs : PaymentStep(p) \/ RefundStep(p) \/ TopupStep(p) \/ FaultStep(p)

SpecFaults == InitFaults /\ [][NextFaults]_vars

\* A wallet row damaged after a payment of 1 under reference A was
\* committed on a balance of 2.
PaidEarlier ==
    NewTransaction(<<"tx", 0>>, "A", Merchant1, Wallet1, 1,
                   Encrypt(FormatInt(1), <<0, 2>>), TransactionTypePayment, "sig", Nil)

DamagedRequests ==
    Request("payment", {"B"}, {1}, TRUE, {"VND"})
    \cup Request("refund", {"A"}, {0}, FALSE, {""})
    \cup Request("refund", {"A"}, {1}, TRUE, {""})
    \cup Request("topup", {""}, {1, 2}, TRUE, {"VND"})

InitDamaged ==
    \E c \in {SealedBalance(1), TamperedBalance, MalformedBalance} :
        /\ InitAround
        /\ wallets = [w \in {Wallet1} |->
              [id |-> Wallet1, merchantID |-> Merchant1, currency |-> "VND",
               encryptedBalance |-> c]]
        /\ transactions = {PaidEarlier}
        /\ idempotencyLogs =
              {IdempotencyLog(BuildIdempotencyKey(Merchant1, "A"), PaidEarlier)}
        /\ cache = {}
        /\ lockHolder = [w \in {Wallet1} |-> {}]
        /\ dbTx = [p \in Procs |-> NoDbTx]
        /\ pc = [p \in Procs |-> "idle"]
        /\ req = [p \in Procs |-> NoRequest]
        /\ loc = [p \in Procs |-> NoLocals]
        /\ result = [p \in Procs |-> NoResult]
        /\ given = [balance |-> 2, requests |-> DamagedRequests]

NextDamaged == \E p \in Procs : PaymentStep(p) \/ RefundStep(p) \/ TopupStep(p)

SpecDamaged == InitDamaged /\ [][NextDamaged]_vars

\* Payments whose reference begins with "refund:", next to refunds: a
\* reference_id is any string of at most 100 characters.
InitKeys ==
    /\ InitAround
    /\ InitLedger(SealedBalance(2))
    /\ given = [balance |-> 2,
                requests |-> Request("payment", {"A", "refund:A"}, {1}, TRUE, {"VND"})
                             \cup Request("refund", {"A"}, {0}, FALSE, {""})]

NextKeys == \E p \in Procs : PaymentStep(p) \/ RefundStep(p)

SpecKeys == InitKeys /\ [][NextKeys]_vars

(***************************************************************************)
(* Request authentication: the HMACAuth middleware, the merchants it looks *)
(* up, the HMAC signature service and the Redis nonce store.  Time is      *)
(* counted in ticks of TimeUnit seconds.                                   *)
(***************************************************************************)
\* Seconds in one tick of the clock.
TimeUnit == 30
\* The clock stops here.
MaxClock == 4

maxTimestampDriftSeconds == 60
nonceTTLSeconds == 120
maxTimestampDrift == maxTimestampDriftSeconds \div TimeUnit
nonceTTL == nonceTTLSeconds \div TimeUnit

ErrInvalidAccessKey == "SEC_001"
ErrInvalidSignature == "SEC_002"
ErrTimestampExpired == "SEC_003"
ErrNonceUsed == "SEC_004"
ErrMerchantSuspended == "AUTH_004"

MerchantStatusActive == "ACTIVE"
MerchantStatusSuspended == "SUSPENDED"

\* Rows of table merchants; an id is a UUID, so all ids have one length.
Merchants ==
    {[id |-> "m1", accessKey |-> "ak1", status |-> MerchantStatusActive,
      secretKeyEnc |-> Encrypt("s1", <<0, 1>>)],
     [id |-> "m2", accessKey |-> "ak2", status |-> MerchantStatusActive,
      secretKeyEnc |-> Encrypt("s2", <<0, 2>>)],
     [id |-> "m3", accessKey |-> "ak3", status |-> MerchantStatusSuspended,
      secretKeyEnc |-> Encrypt("s3", <<0, 3>>)]}

\* MerchantRepo.GetByAccessKey: the rows the SELECT matches.
GetByAccessKey(accessKey) == {m \in Merchants : m.accessKey = accessKey}

IsActive(merchant) == merchant.status = MerchantStatusActive

\* HMACSignatureService.Sign: HMAC-SHA256, one value per (key, payload).
Sign(secretKey, payload) == "hmac[" \o secretKey \o "](" \o payload \o ")"

Verify(secretKey, payload, signature) == Sign(secretKey, payload) = signature

\* fmt.Sprintf("%d", n): the characters of the decimal string, joined.
RECURSIVE Join(_)
Join(chars) == IF chars = <<>> THEN "" ELSE Head(chars) \o Join(Tail(chars))

BuildCanonicalString(method, path, timestamp, nonce, body) ==
    method \o "|" \o path \o "|" \o Join(FormatInt(timestamp)) \o "|" \o nonce
        \o "|" \o body

\* math.Abs(float64(x)).
Abs(x) == IF x < 0 THEN -x ELSE x

\* A drift check that also turns away a drift of exactly the limit.
TimestampExpiredAtLimit(nowUnix, timestamp) ==
    Abs(SubInt64(nowUnix, timestamp)) >= maxTimestampDrift

\* The drift check: now - timestamp is an int64 subtraction.
TimestampExpired(nowUnix, timestamp) ==
    Abs(SubInt64(nowUnix, timestamp)) > maxTimestampDrift

\* The Redis key of a nonce.
NonceKey(merchantID, nonce) == "nonce:" \o merchantID \o ":" \o nonce

\* A key Redis still holds: its expiry has not passed.
NonceHeld(store, key, t) == \E e \in store : e.key = key /\ t < e.expiresAt

\* SET without NX: the key is written whether or not it is held.
SetAlways(store, key, ttl, t) ==
    [ok |-> TRUE,
     store |-> {e \in store : e.key # key}
                   \cup {[key |-> key, expiresAt |-> t + ttl]}]

\* SET key 1 NX EX ttl, one atomic Redis command: [ok, store].
SetNX(store, key, ttl, t) ==
    IF NonceHeld(store, key, t)
    THEN [ok |-> FALSE, store |-> store]
    ELSE [ok |-> TRUE,
          store |-> {e \in store : e.key # key}
                        \cup {[key |-> key, expiresAt |-> t + ttl]}]

\* NonceStore.CheckAndSet without a Redis error: [isNew, store].
CheckAndSet(store, merchantID, nonce, ttl, t) ==
    LET set == SetNX(store, NonceKey(merchantID, nonce), ttl, t)
    IN  [isNew |-> set.ok, store |-> set.store]

\* The secret a client holds for an access key.
ClientSecret(accessKey) ==
    CASE accessKey = "ak1" -> "s1"
      [] accessKey = "ak2" -> "s2"
      [] accessKey = "ak3" -> "s3"
      [] OTHER -> "s0"

\* The string a client signs: its own timestamp header, as sent.
ClientCanonical(accessKey, timestamp, nonce, body) ==
    "POST" \o "|" \o "/api/v1/payments" \o "|" \o Join(timestamp) \o "|"
        \o nonce \o "|" \o body

\* Requests that reach the middleware: each header absent or present, a
\* timestamp header that is no number, the access key of no merchant, a
\* signature over another body.
AuthRequests ==
    {[accessKey |-> k, signature |-> g, timestamp |-> t, nonce |-> n,
      method |-> "POST", path |-> "/api/v1/payments", body |-> "{}"] :
        <<k, t, n, g>> \in
            {<<k, t, n, g>> \in
                {"", "ak1", "ak2", "ak3", "akX"}
                \X {<<>>, <<"x">>, FormatInt(0), FormatInt(2), FormatInt(7)}
                \X {"", "n1"}
                \X {"", "valid", "tampered"} : TRUE}}

\* The signature header of a request, from what the client signed.
SignatureHeader(r) ==
    CASE r.signature = "valid" ->
            Sign(ClientSecret(r.accessKey),
                 ClientCanonical(r.accessKey, r.timestamp, r.nonce, r.body))
      [] r.signature = "tampered" ->
            Sign(ClientSecret(r.accessKey),
                 ClientCanonical(r.accessKey, r.timestamp, r.nonce, "{x}"))
      [] OTHER -> ""

\* HMACAuth, from the headers to the merchant's status, for a request of
\* the given set.
AuthReceiveFrom(a, requests) ==
    /\ auth[a].pc = "idle"
    /\ \E r \in requests :
        LET timestamp == ParseInt(r.timestamp)
            found == GetByAccessKey(r.accessKey)
            reject(code) ==
                auth' = [auth EXCEPT ![a] =
                    [NoAuth EXCEPT !.pc = "done", !.request = r, !.outcome = code]]
        IN  IF r.accessKey = "" \/ r.signature = "" \/ r.timestamp = <<>>
                \/ r.nonce = ""
            THEN reject(ErrInvalidAccessKey)
            ELSE IF ~timestamp.ok THEN reject(ErrTimestampExpired)
            ELSE IF TimestampExpired(now, timestamp.val)
            THEN reject(ErrTimestampExpired)
            ELSE IF found = {} THEN reject(ErrInvalidAccessKey)
            ELSE LET merchant == CHOOSE m \in found : TRUE
                 IN  IF ~IsActive(merchant)
                     THEN reject(ErrMerchantSuspended)
                     ELSE auth' = [auth EXCEPT ![a] =
                             [NoAuth EXCEPT !.pc = "nonce", !.request = r,
                                            !.merchantID = merchant.id]]
    /\ UNCHANGED <<ledger, given, webhookState, now, nonces>>

AuthReceive(a) ==
    AuthReceiveFrom(a, {[q EXCEPT !.signature = SignatureHeader(q)] : q \in AuthRequests})

\* A nonce store error that turns the request away.
NonceStoreErrorRejects(task, t) ==
    [task EXCEPT !.pc = "done", !.called = TRUE, !.at = t, !.nonceErr = TRUE,
                 !.outcome = ErrNonceUsed]

\* CheckAndSet returned an error: a warning is logged, the request goes on.
NonceStoreError(task, t) ==
    [task EXCEPT !.pc = "verify", !.called = TRUE, !.at = t, !.nonceErr = TRUE]

\* HMACAuth, the nonce claim.  A Redis error is logged and the request goes
\* on; the command may or may not have reached the server.
AuthClaimNonce(a) ==
    /\ auth[a].pc = "nonce"
    /\ LET set == CheckAndSet(nonces, auth[a].merchantID,
                              auth[a].request.nonce, nonceTTL, now)
       IN  \/ /\ nonces' = set.store
              /\ auth' = [auth EXCEPT ![a] =
                    IF set.isNew
                    THEN [@ EXCEPT !.pc = "verify", !.called = TRUE,
                                   !.isNew = TRUE, !.at = now]
                    ELSE [@ EXCEPT !.pc = "done", !.called = TRUE,
                                   !.at = now, !.outcome = ErrNonceUsed]]
           \/ /\ \E applied \in BOOLEAN :
                    nonces' = IF applied THEN set.store ELSE nonces
              /\ auth' = [auth EXCEPT ![a] = NonceStoreError(@, now)]
    /\ UNCHANGED <<ledger, given, webhookState, now>>

\* A verification that gives the nonce back when the signature is wrong.
AuthVerifyReleasesNonce(a) ==
    /\ auth[a].pc = "verify"
    /\ LET r == auth[a].request
           merchant == CHOOSE m \in Merchants : m.id = auth[a].merchantID
           secretKey == Decrypt(merchant.secretKeyEnc)
           canonical == BuildCanonicalString(r.method, r.path,
                            ParseInt(r.timestamp).val, r.nonce, r.body)
           valid == secretKey.ok /\ Verify(secretKey.plaintext, canonical, r.signature)
       IN  /\ auth' = [auth EXCEPT ![a] =
                  IF valid
                  THEN [@ EXCEPT !.pc = "done", !.outcome = NoError, !.next = TRUE]
                  ELSE [@ EXCEPT !.pc = "done", !.outcome = ErrInvalidSignature]]
           /\ nonces' = IF valid THEN nonces
                        ELSE {e \in nonces :
                                e.key # NonceKey(auth[a].merchantID, r.nonce)}
    /\ UNCHANGED <<ledger, given, webhookState, now>>

\* HMACAuth, from the merchant's secret to c.Next().
AuthVerify(a) ==
    /\ auth[a].pc = "verify"
    /\ LET r == auth[a].request
           merchant == CHOOSE m \in Merchants : m.id = auth[a].merchantID
           secretKey == Decrypt(merchant.secretKeyEnc)
           canonical == BuildCanonicalString(r.method, r.path,
                            ParseInt(r.timestamp).val, r.nonce, r.body)
       IN  auth' = [auth EXCEPT ![a] =
              IF ~secretKey.ok
              THEN [@ EXCEPT !.pc = "done", !.outcome = InternalError]
              ELSE IF ~Verify(secretKey.plaintext, canonical, r.signature)
              THEN [@ EXCEPT !.pc = "done", !.outcome = ErrInvalidSignature]
              ELSE [@ EXCEPT !.pc = "done", !.outcome = NoError, !.next = TRUE]]
    /\ UNCHANGED <<ledger, given, webhookState, now, nonces>>

\* The wall clock moves on; Redis drops the keys whose expiry has passed.
Tick ==
    /\ now < MaxClock
    /\ now' = now + 1
    /\ nonces' = {e \in nonces : now + 1 < e.expiresAt}
    /\ UNCHANGED <<ledger, given, webhookState, auth>>

InitAuth ==
    /\ InitAround
    /\ InitLedger(SealedBalance(0))
    /\ given = [balance |-> 0, requests |-> {}]

NextAuth ==
    \/ \E a \in AuthTasks : AuthReceive(a) \/ AuthClaimNonce(a) \/ AuthVerify(a)
    \/ Tick

SpecAuth == InitAuth /\ [][NextAuth]_vars

\* A client signs one request whose nonce holds the separator; the same
\* headers reach the middleware again with the nonce and the body cut at
\* another place.
SignedNonce == "n1|x"
SignedBody == "{}"

CanonicalRequests ==
    {[accessKey |-> "ak1", timestamp |-> FormatInt(1), nonce |-> n, body |-> b,
      method |-> "POST", path |-> "/api/v1/payments",
      signature |-> Sign(ClientSecret("ak1"),
                         ClientCanonical("ak1", FormatInt(1), SignedNonce, SignedBody))] :
        n \in {SignedNonce, "n1"}, b \in {SignedBody, "x|{}"}}

NextCanonical ==
    \/ \E a \in AuthTasks :
          AuthReceiveFrom(a, CanonicalRequests) \/ AuthClaimNonce(a) \/ AuthVerify(a)
    \/ Tick

SpecCanonical == InitAuth /\ [][NextCanonical]_vars

(***************************************************************************)
(* The webhook dispatcher: EnqueueWebhook and the deliverWithRetries       *)
(* goroutine it starts, with the delivery log it keeps in table            *)
(* webhook_delivery_logs.  Durations are in seconds.                       *)
(***************************************************************************)
\* Deliveries that are started; a later EnqueueWebhook finds no URL.
NumDeliveries == 2

\* Intervals that double from 15 s.
webhookRetryIntervalsDoubling == <<15, 30, 60, 120, 240>>

webhookRetryIntervals == <<15, 60, 120, 300, 600>>

WebhookStatusPending == "PENDING"
WebhookStatusDelivered == "DELIVERED"
WebhookStatusFailed == "FAILED"

\* Webhook URLs a merchant may have registered: none, one that parses, one
\* that http.NewRequest refuses.
WebhookURLs == {"", "https://merchant.example/hook", "http://[::1"}

\* http.NewRequest(http.MethodPost, url, body) returns no error.
NewRequestOK(url) == url # "http://[::1"

\* What httpClient.Do may return: a transport error or a response.
TransportError == [err |-> TRUE, status |-> 0]
Response(status) == [err |-> FALSE, status |-> status]

RECURSIVE Sum(_)
Sum(seq) == IF seq = <<>> THEN 0 ELSE Head(seq) + Sum(Tail(seq))

\* A success test that takes 300 for a success.
IsSuccessUpTo300(status) == status >= 200 /\ status <= 300

\* resp.StatusCode >= 200 && resp.StatusCode < 300.
IsSuccess(status) == status >= 200 /\ status < 300

\* webhookRepo.Create: INSERT of the log.
WebhookRepoCreate(rows, log) == rows \cup {log}

\* persistLog: webhookRepo.Update sets the row with the log's id.
persistLog(rows, log) == {IF r.id = log.id THEN log ELSE r : r \in rows}

\* EnqueueWebhook(transaction) in task p: an error from the merchant lookup
\* or the secret's decryption, nothing to do without a URL, or a goroutine.
EnqueueWebhook(p, transaction) ==
    \/ /\ response' = [response EXCEPT ![p].enqueued = TRUE, ![p].enqueueErr = TRUE]
       /\ UNCHANGED delivery
    \/ \E url \in WebhookURLs :
          /\ url # "" => Cardinality({q \in Procs : delivery[q].pc # "none"}) < NumDeliveries
          /\ response' = [response EXCEPT ![p].enqueued = TRUE]
          /\ delivery' = [delivery EXCEPT ![p] =
                IF url = "" THEN @
                ELSE [NoDelivery EXCEPT
                        !.pc = "spawned", !.urlOK = NewRequestOK(url),
                        !.log = [NoDeliveryLog EXCEPT
                                    !.transactionID = transaction.id,
                                    !.merchantID = transaction.merchantID]]]

\* deliverWithRetries: the log is created, pending, attempt 0.
DeliverCreate(p) ==
    /\ delivery[p].pc = "spawned"
    /\ LET deliveryLog == [delivery[p].log EXCEPT
                              !.id = <<"log", p>>, !.attempt = 0,
                              !.status = WebhookStatusPending]
       IN  /\ webhookLogs' = WebhookRepoCreate(webhookLogs, deliveryLog)
           /\ delivery' = [delivery EXCEPT ![p].pc = "post", ![p].attempt = 0,
                                           ![p].log = deliveryLog]
    /\ UNCHANGED <<ledger, given, authState, endpoint, response>>

\* deliverWithRetries: time.Sleep before every iteration but the first.
DeliverSleep(p) ==
    /\ delivery[p].pc = "sleep"
    /\ delivery' = [delivery EXCEPT
          ![p].pc = "post",
          ![p].waits = Append(@, webhookRetryIntervals[delivery[p].attempt])]
    /\ UNCHANGED <<ledger, given, authState, endpoint, webhookLogs, response>>

\* The loop goes on to its next iteration, or ends.
Continue(d, deliveryLog) ==
    [d EXCEPT !.log = deliveryLog, !.attempt = d.attempt + 1,
              !.pc = IF d.attempt + 1 <= Len(webhookRetryIntervals)
                     THEN "sleep" ELSE "exhausted"]

\* The log after an attempt that got no 2xx: the error, and the time of the
\* next retry when one remains.
Retry(d, deliveryLog, errMsg) ==
    [deliveryLog EXCEPT
        !.lastError = {errMsg},
        !.nextRetryAt = IF d.attempt < Len(webhookRetryIntervals)
                        THEN {Sum(d.waits) + webhookRetryIntervals[d.attempt + 1]}
                        ELSE @]

\* deliverWithRetries: one iteration of the loop after its sleep.
DeliverAttempt(p) ==
    /\ delivery[p].pc = "post"
    /\ LET d == delivery[p]
           counted == [d.log EXCEPT !.attempt = d.attempt + 1]
       IN  IF ~d.urlOK
           THEN LET deliveryLog == [counted EXCEPT !.lastError = {"parse"}]
                IN  /\ webhookLogs' = persistLog(webhookLogs, deliveryLog)
                    /\ delivery' = [delivery EXCEPT ![p] = Continue(d, deliveryLog)]
           ELSE \E resp \in endpoint :
                LET sent == [d EXCEPT
                                !.posts = @ + 1,
                                !.got2xx = @ \/ (~resp.err /\ resp.status \in 200..299)]
                IN  IF resp.err
                    THEN LET deliveryLog == Retry(d, counted, "timeout")
                         IN  /\ webhookLogs' = persistLog(webhookLogs, deliveryLog)
                             /\ delivery' = [delivery EXCEPT ![p] =
                                                Continue(sent, deliveryLog)]
                    ELSE LET answered == [counted EXCEPT !.httpStatus = {resp.status}]
                         IN  IF IsSuccess(resp.status)
                             THEN LET deliveryLog ==
                                        [answered EXCEPT
                                            !.status = WebhookStatusDelivered,
                                            !.lastError = {}, !.nextRetryAt = {}]
                                  IN  /\ webhookLogs' = persistLog(webhookLogs, deliveryLog)
                                      /\ delivery' = [delivery EXCEPT ![p] =
                                            [sent EXCEPT !.log = deliveryLog,
                                                         !.pc = "returned"]]
                             ELSE LET deliveryLog ==
                                        Retry(d, answered,
                                              "HTTP " \o Join(FormatInt(resp.status)))
                                  IN  /\ webhookLogs' = persistLog(webhookLogs, deliveryLog)
                                      /\ delivery' = [delivery EXCEPT ![p] =
                                                        Continue(sent, deliveryLog)]
    /\ UNCHANGED <<ledger, given, authState, endpoint, response>>

\* A loop that starts over when its iterations are used up.
DeliverStartOver(p) ==
    /\ delivery[p].pc = "exhausted"
    /\ delivery' = [delivery EXCEPT ![p].pc = "post", ![p].attempt = 0,
                                    ![p].waits = <<>>, ![p].posts = 0]
    /\ UNCHANGED <<ledger, given, authState, endpoint, webhookLogs, response>>

\* deliverWithRetries: the loop ended without a 2xx.
DeliverExhausted(p) ==
    /\ delivery[p].pc = "exhausted"
    /\ LET deliveryLog == [delivery[p].log EXCEPT
                              !.status = WebhookStatusFailed, !.nextRetryAt = {}]
       IN  /\ webhookLogs' = persistLog(webhookLogs, deliveryLog)
           /\ delivery' = [delivery EXCEPT ![p].pc = "returned",
                                           ![p].log = deliveryLog]
    /\ UNCHANGED <<ledger, given, authState, endpoint, response>>

DeliverStep(p) ==
    DeliverCreate(p) \/ DeliverSleep(p) \/ DeliverAttempt(p) \/ DeliverExhausted(p)

\* EnqueueWebhook called for a transaction the ledger engine returned.
WebhookEnqueue(p) ==
    /\ ~response[p].enqueued
    /\ \A q \in Procs : q < p => response[q].enqueued
    /\ \E type \in {TransactionTypePayment, TransactionTypeRefund, TransactionTypeTopup} :
          EnqueueWebhook(p, [NoTransaction EXCEPT
                                !.id = NewUUID(p), !.merchantID = Merchant1,
                                !.transactionType = type,
                                !.status = TransactionStatusSuccess])
    /\ UNCHANGED <<ledger, given, authState, endpoint, webhookLogs>>

\* A merchant endpoint that may time out or answer with any of these.
InitWebhook ==
    /\ InitLedger(SealedBalance(0))
    /\ given = [balance |-> 0, requests |-> {}]
    /\ now = 0 /\ nonces = {} /\ auth = [a \in AuthTasks |-> NoAuth]
    /\ endpoint = {TransportError, Response(199), Response(200), Response(299),
                   Response(300)}
    /\ webhookLogs = {}
    /\ delivery = [p \in Procs |-> NoDelivery]
    /\ response = [p \in Procs |-> NoResponse]

NextWebhook == \E p \in Procs : WebhookEnqueue(p) \/ DeliverStep(p)

SpecWebhook == InitWebhook /\ [][NextWebhook]_vars

\* The goroutines are scheduled, sleeps end, and httpClient.Do returns
\* within its timeout.
SpecWebhookLive ==
    SpecWebhook /\ \A p \in Procs : WF_vars(DeliverStep(p))

(***************************************************************************)
(* The HTTP handlers ProcessPayment, ProcessRefund and Topup around the    *)
(* ledger engine: after the service call they enqueue the webhook and      *)
(* write the response.                                                     *)
(***************************************************************************)
\* toTransactionResponse: the DTO of a transaction.
toTransactionResponse(tx) ==
    [id |-> tx.id, reference_id |-> tx.referenceID, amount |-> tx.amount,
     transaction_type |-> tx.transactionType, status |-> tx.status]

\* The service returned a transaction: h.webhookSvc.EnqueueWebhook(result),
\* its error dropped.
HandlerEnqueue(p) ==
    /\ pc[p] = "done"
    /\ result[p].err = NoError
    /\ ~response[p].enqueued
    /\ EnqueueWebhook(p, result[p].txn)
    /\ UNCHANGED <<ledger, given, authState, endpoint, webhookLogs>>

\* A handler that answers with an error when the webhook was not enqueued.
HandlerRespondEnqueueError(p) ==
    /\ pc[p] = "done"
    /\ ~response[p].sent
    /\ result[p].err # NoError \/ response[p].enqueued
    /\ response' = [response EXCEPT
          ![p].sent = TRUE,
          ![p].err = IF response[p].enqueueErr THEN InternalError
                     ELSE result[p].err,
          ![p].body = IF result[p].err = NoError /\ ~response[p].enqueueErr
                      THEN {toTransactionResponse(result[p].txn)} ELSE {}]
    /\ UNCHANGED <<ledger, given, authState, endpoint, webhookLogs, delivery>>

\* The service answered from the idempotency cache or log.
Replayed(p) ==
    result[p].err = NoError
        /\ result[p].at \in {"payCacheGet", "payIdemGet", "refCacheGet", "refIdemGet"}

\* A handler that answers a replay without notifying the merchant again.
HandlerRespondSkipsReplayWebhook(p) ==
    /\ pc[p] = "done"
    /\ ~response[p].sent
    /\ result[p].err # NoError \/ response[p].enqueued \/ Replayed(p)
    /\ response' = [response EXCEPT
          ![p].sent = TRUE,
          ![p].err = result[p].err,
          ![p].body = IF result[p].err = NoError
                      THEN {toTransactionResponse(result[p].txn)} ELSE {}]
    /\ UNCHANGED <<ledger, given, authState, endpoint, webhookLogs, delivery>>

\* response.Error for an error of the service, response.Created otherwise.
HandlerRespond(p) ==
    /\ pc[p] = "done"
    /\ ~response[p].sent
    /\ result[p].err # NoError \/ response[p].enqueued
    /\ response' = [response EXCEPT
          ![p].sent = TRUE,
          ![p].err = result[p].err,
          ![p].body = IF result[p].err = NoError
                      THEN {toTransactionResponse(result[p].txn)} ELSE {}]
    /\ UNCHANGED <<ledger, given, authState, endpoint, webhookLogs, delivery>>

\* One payment, its refund and a top-up on a wallet that can pay once more.
HandlerRequests ==
    {r \in PaymentRequests : r.referenceID = "A" /\ r.amount = 2}
    \cup {r \in RefundRequests : r.referenceID = "A" /\ ~r.hasAmount}
    \cup {r \in TopupRequests : r.amount = 1}

\* The merchant endpoint answers every POST, or none.
InitHandler ==
    /\ InitLedger(SealedBalance(2))
    /\ given = [balance |-> 2, requests |-> HandlerRequests]
    /\ now = 0 /\ nonces = {} /\ auth = [a \in AuthTasks |-> NoAuth]
    /\ endpoint \in {{Response(200)}, {TransportError}}
    /\ webhookLogs = {}
    /\ delivery = [p \in Procs |-> NoDelivery]
    /\ response = [p \in Procs |-> NoResponse]

\* Requests the handlers serve at the same time.
NumHandled == 2

NextHandler ==
    \E p \in 1..NumHandled :
        \/ PaymentStep(p) \/ RefundStep(p) \/ TopupStep(p)
        \/ HandlerEnqueue(p) \/ HandlerRespond(p)
        \/ DeliverStep(p)

SpecHandler == InitHandler /\ [][NextHandler]_vars

\* Two merchants, each with its VND wallet, using the same reference.
Merchant2 == "m2"
Wallet2 == "w2"
TenantMerchants == {Merchant1, Merchant2}

TenantRequests ==
    {[r EXCEPT !.merchantID = m] :
        r \in Request("payment", {"A"}, {1}, TRUE, {"VND"})
               \cup Request("refund", {"A"}, {0}, FALSE, {""})
               \cup Request("topup", {""}, {1}, TRUE, {"VND"}),
        m \in TenantMerchants}

InitTenants ==
    /\ InitAround
    /\ wallets = [w \in {Wallet1, Wallet2} |->
          [id |-> w, merchantID |-> IF w = Wallet1 THEN Merchant1 ELSE Merchant2,
           currency |-> "VND", encryptedBalance |-> SealedBalance(2)]]
    /\ transactions = {}
    /\ idempotencyLogs = {}
    /\ cache = {}
    /\ lockHolder = [w \in {Wallet1, Wallet2} |-> {}]
    /\ dbTx = [p \in Procs |-> NoDbTx]
    /\ pc = [p \in Procs |-> "idle"]
    /\ req = [p \in Procs |-> NoRequest]
    /\ loc = [p \in Procs |-> NoLocals]
    /\ result = [p \in Procs |-> NoResult]
    /\ given = [balance |-> 2, requests |-> TenantRequests]

NextTenants == \E p \in Procs : PaymentStep(p) \/ RefundStep(p) \/ TopupStep(p)

SpecTenants == InitTenants /\ [][NextTenants]_vars

\* A request that arrived runs on: its goroutine is scheduled, PostgreSQL
\* answers, and a released row lock is granted to a waiting transaction.
Runs(p) == pc[p] # "idle" /\ (PaymentStep(p) \/ RefundStep(p) \/ TopupStep(p))

SpecTenantsLive == SpecTenants /\ \A p \in Procs : WF_vars(Runs(p))

(***************************************************************************)
(* Observations of the ledger.                                             *)
(***************************************************************************)
\* The plaintext balance a wallet row seals, as the engine reads it.
BalanceReadable(row) ==
    Decrypt(row.encryptedBalance).ok /\ ParseInt(Decrypt(row.encryptedBalance).plaintext).ok

BalanceOf(row) == ParseInt(Decrypt(row.encryptedBalance).plaintext).val

Min(a, b) == IF a < b THEN a ELSE b

Done(p) == pc[p] = "done"
Started == {p \in Procs : pc[p] # "idle"}

IsPaymentRow(t) == t.transactionType = TransactionTypePayment
IsRefundRow(t) == t.transactionType = TransactionTypeRefund

\* The payments of one (merchant, reference) that took effect.
PaymentRows(rows, merchantID, referenceID) ==
    {t \in rows : /\ IsPaymentRow(t)
                  /\ t.merchantID = merchantID
                  /\ t.referenceID = referenceID
                  /\ t.status \in {TransactionStatusSuccess, TransactionStatusReversed}}

\* The refunds that link to one original transaction.
RefundRows(rows, originalID) ==
    {t \in rows : IsRefundRow(t) /\ t.originalTransactionID = originalID}

RowIDs(rows) == {t.id : t \in rows}

\* The task whose statement a step executes.
Steps(p) == pc'[p] # pc[p]

\* The rows a step inserts into transactions.
InsertedRows == {t \in transactions' : t.id \notin RowIDs(transactions)}

(***************************************************************************)
(* C1.  The decrypted wallet balance is >= 0 at every committed state,    *)
(* for any interleaving of Payment, Refund and Top-up with amounts > 0.    *)
(* Violated: a Top-up (or Refund) whose sum passes the largest int64 wraps *)
(* and commits a negative balance.                                         *)
(***************************************************************************)
C1_BalanceNeverNegative ==
    \A w \in DOMAIN wallets : BalanceReadable(wallets[w]) => BalanceOf(wallets[w]) >= 0

(***************************************************************************)
(* C2.  n concurrent payments with pairwise distinct references, each of   *)
(* amount a, on a wallet of balance B: exactly min(n, B div a) succeed,    *)
(* the others return insufficient-funds, and the final balance is          *)
(* B - a * min(n, B div a).                                                *)
(***************************************************************************)
DistinctReferences(S) ==
    \A p, q \in S : p # q => req[p].referenceID # req[q].referenceID

C2_ConcurrentPaymentsNoLostUpdate ==
    LET S == Started
        a == (CHOOSE r \in given.requests : TRUE).amount
        k == Min(Cardinality(S), given.balance \div a)
        ok == {p \in S : result[p].err = NoError}
    IN  ((\A p \in S : Done(p)) /\ DistinctReferences(S)) =>
            /\ Cardinality(ok) = k
            /\ \A p \in S \ ok : result[p].err = ErrInsufficientFunds
            /\ BalanceOf(wallets[Wallet1]) = given.balance - a * k

\* Three payments are done, one of them paid and two found no funds left.
C2_Witness ==
    /\ Started = Procs /\ \A p \in Procs : Done(p)
    /\ DistinctReferences(Procs)
    /\ Cardinality({p \in Procs : result[p].err = NoError}) = 1
    /\ Cardinality({p \in Procs : result[p].err = ErrInsufficientFunds}) = 2
    /\ given.balance > 0

(***************************************************************************)
(* C3.  At every committed state at most one payment with status success   *)
(* or reversed exists per (merchant, reference), and the commit of a       *)
(* payment, which is what debits the wallet, happens only for a            *)
(* (merchant, reference) that has no such payment yet.                     *)
(***************************************************************************)
C3_OnePaymentPerKey ==
    \A t \in transactions :
        IsPaymentRow(t) =>
            Cardinality(PaymentRows(transactions, t.merchantID, t.referenceID)) <= 1

C3_DebitOncePerKey ==
    \A p \in Procs :
        (pc[p] = "payCommit" /\ wallets' # wallets) =>
            /\ PaymentRows(transactions, req[p].merchantID, req[p].referenceID) = {}
            /\ Cardinality(PaymentRows(transactions', req[p].merchantID,
                                       req[p].referenceID)) = 1

C3_AtMostOnePaymentPerReference == []C3_OnePaymentPerKey /\ [][C3_DebitOncePerKey]_vars

\* Two payment requests with one reference are done, and one row exists.
C3_Witness ==
    \E p, q \in Procs :
        /\ p # q /\ Done(p) /\ Done(q)
        /\ req[p].op = "payment" /\ req[q].op = "payment"
        /\ req[p].referenceID = req[q].referenceID
        /\ result[p].err = NoError /\ result[p].at = "payCacheSet"
        /\ result[q].at = "payPersist"
        /\ Cardinality(PaymentRows(transactions, req[p].merchantID,
                                   req[p].referenceID)) = 1

(***************************************************************************)
(* C4.  Once a payment of (merchant, reference) is committed, a Payment    *)
(* call with that (merchant, reference) that looks its key up returns the  *)
(* stored response (same transaction id) from the cache or from the        *)
(* durable log, never begins a database transaction, and changes neither   *)
(* the wallet, the transactions, the idempotency log nor the cache.        *)
(***************************************************************************)
StoredResponse(key) == (CHOOSE l \in idempotencyLogs : l.key = key).responseJSON
StoredTransactionID(key) == (CHOOSE l \in idempotencyLogs : l.key = key).transactionID

C4_ReplayStep ==
    \A p \in Procs :
        (/\ pc[p] \in {"payCacheGet", "payIdemGet"}
         /\ \E l \in idempotencyLogs : l.key = loc[p].idempKey
         /\ Steps(p)) =>
            /\ UNCHANGED <<wallets, transactions, idempotencyLogs, cache>>
            /\ ~dbTx'[p].active
            /\ \/ pc[p] = "payCacheGet" /\ pc'[p] = "payIdemGet"
               \/ /\ pc'[p] = "done"
                  /\ result'[p].err = NoError
                  /\ result'[p].txn = UnmarshalCachedTransaction(StoredResponse(loc[p].idempKey))
                  /\ result'[p].txn.id = StoredTransactionID(loc[p].idempKey)
                  /\ IsPaymentRow(result'[p].txn)
                  /\ result'[p].txn.referenceID = req[p].referenceID

C4_IdempotentReplay == [][C4_ReplayStep]_vars

\* One replay was served from the cache and one from the durable log.
C4_Witness ==
    \E p, q \in Procs :
        /\ req[p].op = "payment" /\ req[q].op = "payment"
        /\ Done(p) /\ result[p].at = "payCacheGet" /\ result[p].err = NoError
        /\ Done(q) /\ result[q].at = "payIdemGet" /\ result[q].err = NoError
        /\ result[p].txn.id = result[q].txn.id

(***************************************************************************)
(* C5.  n concurrent payments with the same (merchant, reference) on a     *)
(* wallet with sufficient funds all return success with one transaction    *)
(* id; none returns an error.  Violated: the request that passed both      *)
(* idempotency checks before the first commit fails on the primary key of  *)
(* idempotency_logs and returns InternalError.                             *)
(***************************************************************************)
C5_SameReferenceAllSucceed ==
    \A p, q \in Procs :
        (/\ p # q /\ Done(p) /\ Done(q)
         /\ req[p].op = "payment" /\ req[q].op = "payment"
         /\ req[p].referenceID = req[q].referenceID
         /\ req[p].currency = "VND" /\ req[q].currency = "VND"
         /\ req[p].amount > 0 /\ req[q].amount > 0
         /\ result[p].err # ErrInsufficientFunds
         /\ result[q].err # ErrInsufficientFunds) =>
            /\ result[p].err = NoError /\ result[q].err = NoError
            /\ result[p].txn.id = result[q].txn.id

(***************************************************************************)
(* C6.  A payment is reversed if and only if a successful refund links to  *)
(* it; a status changes only from success to reversed, only on a payment,  *)
(* and only in the commit that inserts the refund linking to it.           *)
(***************************************************************************)
C6_ReversedIffRefunded ==
    \A t \in transactions :
        IsPaymentRow(t) =>
            (t.status = TransactionStatusReversed <=>
                \E r \in RefundRows(transactions, t.id) :
                    r.status = TransactionStatusSuccess)

C6_StatusStep ==
    \A t \in transactions :
        \E u \in transactions' :
            /\ u.id = t.id
            /\ \/ u = t
               \/ /\ u = [t EXCEPT !.status = TransactionStatusReversed]
                  /\ IsPaymentRow(t) /\ t.status = TransactionStatusSuccess
                  /\ RefundRows(transactions, t.id) = {}
                  /\ Cardinality(RefundRows(transactions', t.id)) = 1

C6_ReversalWithRefund == []C6_ReversedIffRefunded /\ [][C6_StatusStep]_vars

\* A payment has been refunded.
C6_Witness ==
    \E t \in transactions :
        /\ IsPaymentRow(t) /\ t.status = TransactionStatusReversed
        /\ RefundRows(transactions, t.id) # {}

(***************************************************************************)
(* C7.  Of the refund requests for one original payment exactly one        *)
(* commits: at most one refund links to a payment at any time, the commit  *)
(* of a refund credits the wallet once with the refund's amount, and once  *)
(* a refund request that found the payment is done, one refund exists.     *)
(***************************************************************************)
C7_OneRefundPerPayment ==
    /\ \A t \in transactions :
          IsPaymentRow(t) => Cardinality(RefundRows(transactions, t.id)) <= 1
    /\ \A p \in Procs :
          (/\ Done(p) /\ req[p].op = "refund"
           /\ result[p].err \in {NoError, InternalError, ErrDuplicateTransaction,
                                 ErrInvalidRefund}) =>
              \E t \in PaymentRows(transactions, req[p].merchantID, req[p].referenceID) :
                  Cardinality(RefundRows(transactions, t.id)) = 1

C7_CreditStep ==
    \A p \in Procs :
        (req[p].op = "refund" /\ Steps(p)) =>
            IF pc[p] = "refCommit"
            THEN /\ InsertedRows = {loc[p].txn}
                 /\ RefundRows(transactions, loc[p].origTx.id) = {}
                 /\ BalanceOf(wallets'[Wallet1]) =
                        AddInt64(BalanceOf(wallets[Wallet1]), loc[p].txn.amount)
            ELSE UNCHANGED <<wallets, transactions, idempotencyLogs>>

C7_ExactlyOneRefundCommits == []C7_OneRefundPerPayment /\ [][C7_CreditStep]_vars

\* Two refunds of one payment raced past the checks: one committed, the
\* other failed when it wrote its idempotency record.
C7_Witness ==
    \E p, q \in Procs :
        /\ p # q /\ Done(p) /\ Done(q)
        /\ req[p].op = "refund" /\ req[q].op = "refund"
        /\ req[p].referenceID = req[q].referenceID
        /\ result[p].err = NoError /\ result[p].at = "refCacheSet"
        /\ result[q].at = "refPersist"

(***************************************************************************)
(* C8.  The refund whose transaction fails on the uniqueness violation     *)
(* returns duplicate-transaction (PAY_003).  Violated: the failed INSERT   *)
(* into idempotency_logs is wrapped as InternalError (SYS_001).            *)
(***************************************************************************)
C8_UniquenessStep ==
    \A p \in Procs :
        (pc[p] = "refPersist" /\ IdempotencyKeyTaken(loc[p].idempKey) /\ pc'[p] = "done") =>
            result'[p].err = ErrDuplicateTransaction

C8_RaceSurfacesAsDuplicate == [][C8_UniquenessStep]_vars

(***************************************************************************)
(* C9.  Every transaction with status success (payment, refund or top-up)  *)
(* has a durable idempotency record under its canonical key that names     *)
(* it.  Violated by top-ups, which write none.  Amended to payments and    *)
(* refunds: the record exists and is inserted by the commit that inserts   *)
(* the transaction.                                                        *)
(***************************************************************************)
OriginalReference(t) ==
    (CHOOSE o \in transactions : o.id = t.originalTransactionID).referenceID

CanonicalKey(t) ==
    IF IsRefundRow(t)
    THEN BuildRefundIdempotencyKey(t.merchantID, OriginalReference(t))
    ELSE BuildIdempotencyKey(t.merchantID, t.referenceID)

HasIdempotencyRecord(logs, t) ==
    \E l \in logs : l.key = CanonicalKey(t) /\ l.transactionID = t.id

C9_PaymentsAndRefundsHaveRecord ==
    \A t \in transactions :
        (t.status = TransactionStatusSuccess /\ (IsPaymentRow(t) \/ IsRefundRow(t))) =>
            HasIdempotencyRecord(idempotencyLogs, t)

C9_SameCommit ==
    \A t \in InsertedRows :
        (IsPaymentRow(t) \/ IsRefundRow(t)) =>
            /\ ~HasIdempotencyRecord(idempotencyLogs, t)
            /\ HasIdempotencyRecord(idempotencyLogs', t)

CommitSucceeds(p) ==
    /\ pc[p] \in {"payCommit", "refCommit", "topCommit"}
    /\ \/ pc'[p] \in {"payCacheSet", "refCacheSet"}
       \/ pc'[p] = "done" /\ result'[p].err = NoError

C10_FailureStep ==
    \A p \in Procs :
        (dbTx[p].active /\ Steps(p) /\ ~CommitSucceeds(p)) =>
            /\ UNCHANGED <<wallets, transactions, idempotencyLogs, cache>>
            /\ (pc'[p] = "done" =>
                    /\ result'[p].err # NoError
                    /\ dbTx'[p] = NoDbTx
                    /\ \A w \in DOMAIN lockHolder : p \notin lockHolder'[w])

C10_FailureLeavesNoTrace == [][C10_FailureStep]_vars

\* A commit failed after the writes were issued, a write failed, and a
\* request found the funds insufficient.
C10_Witness ==
    /\ \E p \in Procs :
          result[p].err = InternalError /\ result[p].at \in {"payCommit", "refCommit", "topCommit"}
    /\ \E p \in Procs :
          result[p].err = InternalError /\ result[p].at \in {"payPersist", "refPersist", "topPersist"}

(***************************************************************************)
(* Observations of the authenticity pipeline.                              *)
(***************************************************************************)
\* The nonce key of the request an authentication task carries.
KeyOf(a) == NonceKey(auth[a].merchantID, auth[a].request.nonce)

\* The entries the store holds under a key at time t that have not expired.
Unexpired(store, key, t) == {e \in store : e.key = key /\ t < e.expiresAt}

\* Task a's CheckAndSet call returns in this step, without a Redis error.
Claims(a) ==
    /\ auth[a].pc = "nonce"
    /\ auth'[a].called
    /\ ~auth'[a].nonceErr

(***************************************************************************)
(* C11.  A CheckAndSet call that meets no Redis error returns true exactly *)
(* when the store holds no unexpired entry under (merchant, nonce), and    *)
(* then the store holds one entry under that key, expiring ttl after the   *)
(* call; otherwise it returns false and the store is as it was.  Entries   *)
(* under other keys, another merchant's among them, are never touched.  Of *)
(* two such calls for one (merchant, nonce) made less than ttl apart,      *)
(* exactly one returns true.                                               *)
(***************************************************************************)
C11_ClaimStep ==
    \A a \in AuthTasks :
        Claims(a) =>
            LET key == NonceKey(auth[a].merchantID, auth[a].request.nonce)
            IN  /\ auth'[a].isNew <=> Unexpired(nonces, key, now) = {}
                /\ auth'[a].isNew =>
                      {e \in nonces' : e.key = key}
                          = {[key |-> key, expiresAt |-> now + nonceTTL]}
                /\ ~auth'[a].isNew => nonces' = nonces
                /\ {e \in nonces' : e.key # key} = {e \in nonces : e.key # key}

C11_OneClaimPerWindow ==
    \A a, b \in AuthTasks :
        (/\ a # b
         /\ auth[a].called /\ ~auth[a].nonceErr
         /\ auth[b].called /\ ~auth[b].nonceErr
         /\ KeyOf(a) = KeyOf(b)
         /\ Abs(auth[a].at - auth[b].at) < nonceTTL)
            => (auth[a].isNew # auth[b].isNew)

C11_CheckAndSet == []C11_OneClaimPerWindow /\ [][C11_ClaimStep]_vars

\* Two calls for one (merchant, nonce) at the same instant: one claimed the
\* nonce, the other was told it is taken.
C11_Witness ==
    \E a, b \in AuthTasks :
        /\ auth[a].called /\ ~auth[a].nonceErr /\ auth[a].isNew
        /\ auth[b].called /\ ~auth[b].nonceErr /\ ~auth[b].isNew
        /\ KeyOf(a) = KeyOf(b)
        /\ auth[a].at = auth[b].at

(***************************************************************************)
(* C12.  HMACAuth turns a request away at the first check that fails, in   *)
(* this order: a header missing -> SEC_001; timestamp no number or more    *)
(* than 60 s from now -> SEC_003 (exactly 60 s passes); no merchant for    *)
(* the access key -> SEC_001; merchant not active -> AUTH_004; nonce still *)
(* claimed -> SEC_004; signature not the merchant's MAC over               *)
(* METHOD|PATH|TIMESTAMP|NONCE|BODY -> SEC_002.  The handler behind the    *)
(* middleware runs exactly when no check turned the request away.          *)
(***************************************************************************)
HeaderMissing(r) ==
    r.accessKey = "" \/ r.signature = "" \/ r.timestamp = <<>> \/ r.nonce = ""

IsNumber(chars) == chars # <<>> /\ \A i \in 1..Len(chars) : IsDigit(chars[i])

\* Seconds between the clock and a timestamp header that is a number.
DriftSeconds(t, chars) == Abs(t - DigitsValue(chars)) * TimeUnit

MerchantOf(r) == {m \in Merchants : m.accessKey = r.accessKey}

\* The header a client holding the merchant's secret computes.
SignatureValid(r) ==
    \E m \in MerchantOf(r) :
        r.signature = Sign(m.secretKeyEnc.sealed,
            r.method \o "|" \o r.path \o "|" \o Join(r.timestamp) \o "|"
                \o r.nonce \o "|" \o r.body)

RejectedWith(a, code) ==
    auth'[a].pc = "done" /\ auth'[a].outcome = code /\ ~auth'[a].next

C12_ReceiveStep ==
    \A a \in AuthTasks :
        (auth[a].pc = "idle" /\ auth'[a].pc # "idle") =>
            LET r == auth'[a].request
            IN  CASE HeaderMissing(r) -> RejectedWith(a, "SEC_001")
                  [] ~HeaderMissing(r) /\ ~IsNumber(r.timestamp) ->
                        RejectedWith(a, "SEC_003")
                  [] OTHER ->
                        IF DriftSeconds(now, r.timestamp) > 60
                        THEN RejectedWith(a, "SEC_003")
                        ELSE IF MerchantOf(r) = {}
                        THEN RejectedWith(a, "SEC_001")
                        ELSE IF \E m \in MerchantOf(r) : m.status # "ACTIVE"
                        THEN RejectedWith(a, "AUTH_004")
                        ELSE auth'[a].pc = "nonce" /\ auth'[a].outcome = ""

C12_NonceStep ==
    \A a \in AuthTasks :
        Claims(a) =>
            IF Unexpired(nonces, KeyOf(a), now) # {}
            THEN RejectedWith(a, "SEC_004")
            ELSE auth'[a].pc = "verify" /\ auth'[a].outcome = ""

C12_VerifyStep ==
    \A a \in AuthTasks :
        (auth[a].pc = "verify" /\ auth'[a].pc # "verify") =>
            IF SignatureValid(auth[a].request)
            THEN auth'[a].pc = "done" /\ auth'[a].outcome = NoError
                    /\ auth'[a].next
            ELSE RejectedWith(a, "SEC_002")

\* The handler has run exactly for the requests that passed every check.
C12_NextIffPassed ==
    \A a \in AuthTasks :
        /\ auth[a].next <=> (auth[a].pc = "done" /\ auth[a].outcome = NoError)
        /\ auth[a].pc = "done" <=> auth[a].outcome # ""

C12_ChecksInOrder ==
    /\ []C12_NextIffPassed
    /\ [][C12_ReceiveStep /\ C12_NonceStep /\ C12_VerifyStep]_vars

\* A request whose timestamp is exactly 60 s ahead of the clock reached the
\* handler, and a replay of its nonce with a signature over another body
\* was turned away for the nonce, not for the signature.
C12_Witness ==
    \E a, b \in AuthTasks :
        /\ auth[a].next /\ auth[a].at = 0
        /\ DriftSeconds(0, auth[a].request.timestamp) = 60
        /\ auth[b].outcome = ErrNonceUsed
        /\ ~SignatureValid(auth[b].request)

(***************************************************************************)
(* C13.  A Redis error from the nonce store does not turn the request      *)
(* away: it goes on to signature verification and reaches the handler      *)
(* exactly when its signature is valid.  When the store answers without    *)
(* error that the nonce is present, the request is turned away with        *)
(* SEC_004.                                                                *)
(***************************************************************************)
C13_StoreErrorStep ==
    \A a \in AuthTasks :
        /\ (auth[a].pc = "nonce" /\ auth'[a].called /\ auth'[a].nonceErr) =>
              auth'[a].pc = "verify" /\ auth'[a].outcome = ""
        /\ (auth[a].pc = "nonce" /\ auth'[a].called /\ ~auth'[a].nonceErr
                /\ ~auth'[a].isNew) =>
              auth'[a].pc = "done" /\ auth'[a].outcome = ErrNonceUsed

C13_AcceptedIffSigned ==
    \A a \in AuthTasks :
        (auth[a].pc = "done" /\ auth[a].nonceErr) =>
            /\ auth[a].next <=> SignatureValid(auth[a].request)
            /\ auth[a].outcome \in {NoError, ErrInvalidSignature}

C13_SoftAllow == []C13_AcceptedIffSigned /\ [][C13_StoreErrorStep]_vars

\* While a nonce was claimed, a second request with the same nonce met a
\* Redis error and reached the handler; or it was turned away for its
\* signature.
C13_Witness ==
    \E a, b \in AuthTasks :
        /\ auth[a].isNew /\ auth[b].nonceErr /\ auth[b].pc = "done"
        /\ KeyOf(a) = KeyOf(b)
        /\ Abs(auth[a].at - auth[b].at) < nonceTTL
        /\ auth[b].next

(***************************************************************************)
(* Observations of the webhook dispatcher.                                 *)
(***************************************************************************)
\* The rows of webhook_delivery_logs that task p's delivery created.
LogOf(p) == {row \in webhookLogs : row.id = <<"log", p>>}

\* Task p's delivery sends a POST in this step.
Posts(p) == delivery'[p].posts = delivery[p].posts + 1

Terminal(row) == row.status \in {"DELIVERED", "FAILED"}

(***************************************************************************)
(* C14.  A delivery sends at most 6 POSTs.  The first is sent without a    *)
(* wait; the POST after the k-th is sent only when none so far got a 2xx   *)
(* response, and after waits of 15 s, 60 s, 120 s, 300 s and 600 s for     *)
(* k = 1..5.                                                               *)
(***************************************************************************)
C14_PostStep ==
    \A p \in Procs :
        Posts(p) =>
            /\ ~delivery[p].got2xx
            /\ delivery[p].posts < 6
            /\ delivery[p].waits
                  = SubSeq(<<15, 60, 120, 300, 600>>, 1, delivery[p].posts)

C14_SixPosts == \A p \in Procs : delivery[p].posts <= 6

C14_RetrySchedule == []C14_SixPosts /\ [][C14_PostStep]_vars

\* The sixth POST was sent, after all five waits.
C14_Witness ==
    \E p \in Procs :
        delivery[p].posts = 6 /\ delivery[p].waits = <<15, 60, 120, 300, 600>>

(***************************************************************************)
(* C15.  A delivery log is delivered exactly when some attempt got a 2xx   *)
(* response; it then has no next-retry and no last error, and no attempt   *)
(* follows.  It is failed exactly when the delivery ended after 6 attempts *)
(* none of which got a 2xx response.  A delivered or failed log never      *)
(* changes again.                                                          *)
(***************************************************************************)
C15_Status ==
    \A p \in Procs : \A row \in LogOf(p) :
        /\ row.status = "DELIVERED" <=> delivery[p].got2xx
        /\ row.status = "DELIVERED" =>
              /\ row.nextRetryAt = {} /\ row.lastError = {}
              /\ \E n \in 200..299 : row.httpStatus = {n}
              /\ delivery[p].pc = "returned"
        /\ row.status = "FAILED" <=>
              (delivery[p].pc = "returned" /\ ~delivery[p].got2xx)
        /\ row.status = "FAILED" =>
              /\ row.attempt = 6 /\ Len(delivery[p].waits) = 5
              /\ row.httpStatus \cap 200..299 = {}
              /\ row.nextRetryAt = {}

C15_TerminalStep ==
    \A p \in Procs : \A row \in LogOf(p) :
        Terminal(row) => (row \in webhookLogs' /\ delivery'[p] = delivery[p])

C16_DeliveryTerminates ==
    \A p \in Procs :
        (delivery[p].pc = "spawned") ~>
            (delivery[p].pc = "returned" /\ \E row \in LogOf(p) : Terminal(row))

\* A delivery ended as failed for a URL no request can be built for, without
\* a POST.
C16_Witness ==
    \E p \in Procs :
        /\ delivery[p].pc = "returned" /\ delivery[p].posts = 0
        /\ \E row \in LogOf(p) : row.status = "FAILED"

(***************************************************************************)
(* C17.  The log is created pending with attempt 0 before the first POST.  *)
(* After the k-th attempt and before the wait for attempt k+1 the stored   *)
(* log has attempt k, the HTTP status or the error of that attempt, and    *)
(* the time of the next retry.                                             *)
(***************************************************************************)
C17_CreatedBeforePost ==
    \A p \in Procs :
        /\ delivery[p].pc = "post" /\ delivery[p].attempt = 0 =>
              \E row \in LogOf(p) :
                  row.status = "PENDING" /\ row.attempt = 0 /\ delivery[p].posts = 0
        /\ delivery[p].posts > 0 => LogOf(p) # {}

C17_BeforeWait(p) ==
    delivery[p].pc = "sleep" =>
        \E row \in LogOf(p) :
            /\ row.status = "PENDING"
            /\ row.attempt = delivery[p].attempt
            /\ row.lastError # {}
            /\ row.nextRetryAt
                = {Sum(delivery[p].waits)
                    + <<15, 60, 120, 300, 600>>[delivery[p].attempt]}

C17_AttemptPersisted ==
    /\ C17_CreatedBeforePost
    /\ \A p \in Procs : C17_BeforeWait(p)

\* The same for the attempts whose request could be built.
C17_SentAttemptPersisted ==
    /\ C17_CreatedBeforePost
    /\ \A p \in Procs : delivery[p].urlOK => C17_BeforeWait(p)

(***************************************************************************)
(* C18.  No delivery log records an attempt number above 5, and no         *)
(* delivery makes more than 5 attempts.                                    *)
(***************************************************************************)
C18_AtMostFiveAttempts ==
    /\ \A row \in webhookLogs : row.attempt <= 5
    /\ \A p \in Procs : delivery[p].posts <= 5

(***************************************************************************)
(* C19.  The response of a Payment, Refund or Top-up request and the       *)
(* committed ledger do not depend on the webhook.  EnqueueWebhook is       *)
(* called only after the service returned, with the database transaction   *)
(* over and the transaction committed; it returns before any delivery      *)
(* attempt; no step of the dispatcher changes the ledger; the response is  *)
(* the service's result whatever EnqueueWebhook returned and whatever      *)
(* became of the delivery.                                                 *)
(***************************************************************************)
C19_EnqueueStep ==
    \A p \in Procs :
        (~response[p].enqueued /\ response'[p].enqueued) =>
            /\ pc[p] = "done" /\ result[p].err = NoError
            /\ ~dbTx[p].active
            /\ \A w \in DOMAIN lockHolder : p \notin lockHolder[w]
            /\ result[p].txn.id \in RowIDs(transactions)
            /\ delivery'[p].pc \in {"none", "spawned"}
            /\ delivery'[p].posts = 0
            /\ ~response'[p].sent

C19_DispatcherStep ==
    (delivery' # delivery \/ webhookLogs' # webhookLogs \/ response' # response)
        => UNCHANGED ledger

C19_Response ==
    \A p \in Procs :
        response[p].sent =>
            /\ pc[p] = "done"
            /\ response[p].err = result[p].err
            /\ IF result[p].err = NoError
               THEN response[p].body =
                       {[id |-> result[p].txn.id,
                         reference_id |-> result[p].txn.referenceID,
                         amount |-> result[p].txn.amount,
                         transaction_type |-> result[p].txn.transactionType,
                         status |-> result[p].txn.status]}
               ELSE response[p].body = {} /\ ~response[p].enqueued

C19_ResponseKept ==
    \A p \in Procs : response[p].sent => response'[p] = response[p]

C19_WebhookIndependent ==
    /\ []C19_Response
    /\ [][C19_EnqueueStep /\ C19_DispatcherStep /\ C19_ResponseKept]_vars

\* One request was answered with its transaction although its webhook had
\* failed for good before the response was written, and one although
\* EnqueueWebhook returned an error.
C19_Witness ==
    \E p, q \in Procs :
        /\ response[p].sent /\ response[p].body # {}
        /\ \E row \in LogOf(p) : row.status = "FAILED"
        /\ response[q].sent /\ response[q].body # {} /\ response[q].enqueueErr

(***************************************************************************)
(* C20.  A Payment or a Refund that reads the cache and finds an entry     *)
(* under its idempotency key returns the transaction deserialized from it, *)
(* without reading the durable idempotency log, beginning a database       *)
(* transaction, locking the wallet or writing anything.                    *)
(***************************************************************************)
C20_CacheHitStep ==
    \A p \in Procs :
        (/\ pc[p] \in {"payCacheGet", "refCacheGet"}
         /\ \E c \in cache : c.key = loc[p].idempKey
         /\ Steps(p)) =>
            /\ pc'[p] = "done"
            /\ result'[p].err = NoError
            /\ result'[p].at = pc[p]
            /\ \E c \in cache :
                  /\ c.key = loc[p].idempKey
                  /\ result'[p].txn.id = c.value.id
                  /\ result'[p].txn.referenceID = c.value.reference_id
                  /\ result'[p].txn.amount = c.value.amount
                  /\ result'[p].txn.transactionType = c.value.transaction_type
                  /\ result'[p].txn.status = c.value.status
            /\ UNCHANGED <<wallets, transactions, idempotencyLogs, cache,
                           lockHolder, dbTx>>
            /\ ~dbTx'[p].active

C20_CacheHit == [][C20_CacheHitStep]_vars

\* A refund was answered from the cache with the refund committed before.
C20_Witness ==
    \E p \in Procs :
        /\ req[p].op = "refund" /\ Done(p) /\ result[p].at = "refCacheGet"
        /\ IsRefundRow(result[p].txn)
        /\ \E t \in transactions :
              t.id = result[p].txn.id /\ t.id # NewUUID(p)

(***************************************************************************)
(* C21.  A Payment or a Refund that misses the cache and finds a record    *)
(* under its key in the durable idempotency log returns the stored         *)
(* response and writes it back into the cache, so that the next lookup     *)
(* under the key is a cache hit.                                           *)
(* Violated: the record is returned and the cache is left without an       *)
(* entry under the key.                                                    *)
(***************************************************************************)
C21_LogHitStep ==
    \A p \in Procs :
        (/\ pc[p] \in {"payIdemGet", "refIdemGet"}
         /\ \E l \in idempotencyLogs : l.key = loc[p].idempKey
         /\ pc'[p] = "done" /\ result'[p].err = NoError) =>
            \E c \in cache' :
                /\ c.key = loc[p].idempKey
                /\ c.value = StoredResponse(loc[p].idempKey)

C21_LogHitRepopulatesCache == [][C21_LogHitStep]_vars

(***************************************************************************)
(* C22.  An error of the cache never fails a Payment or a Refund.  A step  *)
(* at the cache read ends the call only with the cached transaction and no *)
(* error, and otherwise goes on to the durable idempotency log, also when  *)
(* the read failed.  A step at the cache write after the commit ends the   *)
(* call with the committed transaction and no error, whether or not the    *)
(* write took place, and the wallet, the transaction row and the           *)
(* idempotency record the commit wrote stay as they are.                   *)
(***************************************************************************)
C22_ReadStep ==
    \A p \in Procs :
        (pc[p] \in {"payCacheGet", "refCacheGet"} /\ Steps(p)) =>
            /\ \/ pc'[p] = "done" /\ result'[p].err = NoError
               \/ pc[p] = "payCacheGet" /\ pc'[p] = "payIdemGet"
               \/ pc[p] = "refCacheGet" /\ pc'[p] = "refIdemGet"
            /\ UNCHANGED <<wallets, transactions, idempotencyLogs, cache>>

C22_WriteStep ==
    \A p \in Procs :
        (pc[p] \in {"payCacheSet", "refCacheSet"} /\ Steps(p)) =>
            /\ pc'[p] = "done"
            /\ result'[p].err = NoError
            /\ result'[p].txn = loc[p].txn
            /\ \E t \in transactions' : t.id = loc[p].txn.id
            /\ \E l \in idempotencyLogs' :
                  l.key = loc[p].idempKey /\ l.transactionID = loc[p].txn.id
            /\ UNCHANGED <<wallets, transactions, idempotencyLogs>>

C22_CacheErrorNeverFails == [][C22_ReadStep /\ C22_WriteStep]_vars

\* A call ended well although its cache write failed, and a call whose
\* cache read failed was answered from the durable log while the cache
\* held the entry.
C22_Witness ==
    /\ \E p \in Procs :
          /\ Done(p) /\ result[p].at \in {"payCacheSet", "refCacheSet"}
          /\ result[p].err = NoError
          /\ result[p].txn \in transactions
          /\ \A c \in cache : c.key # CanonicalKey(result[p].txn)
    /\ \E p \in Procs :
          /\ Done(p) /\ result[p].at \in {"payIdemGet", "refIdemGet"}
          /\ result[p].err = NoError
          /\ \E c \in cache : c.key = CanonicalKey(result[p].txn)

(***************************************************************************)
(* Observations of the ledger sums.                                        *)
(***************************************************************************)
\* The sum of the amounts of a set of transaction rows, in the integers.
RECURSIVE TotalAmount(_)
TotalAmount(rows) ==
    IF rows = {} THEN 0
    ELSE LET t == CHOOSE r \in rows : TRUE
         IN  t.amount + TotalAmount(rows \ {t})

RowsOf(w, type, statuses) ==
    {t \in transactions :
        t.walletID = w /\ t.transactionType = type /\ t.status \in statuses}

TopupTotal(w) == TotalAmount(RowsOf(w, TransactionTypeTopup, {TransactionStatusSuccess}))
RefundTotal(w) == TotalAmount(RowsOf(w, TransactionTypeRefund, {TransactionStatusSuccess}))
PaymentTotal(w) ==
    TotalAmount(RowsOf(w, TransactionTypePayment,
                       {TransactionStatusSuccess, TransactionStatusReversed}))

\* Initial balance + top-ups - payments + refunds, in the integers.
LedgerSum(w) == given.balance + TopupTotal(w) - PaymentTotal(w) + RefundTotal(w)

(***************************************************************************)
(* C23.  At every committed state the decrypted balance of a wallet equals *)
(* its initial balance plus the sum of its top-up amounts, minus the sum   *)
(* of its payment amounts (status success or reversed), plus the sum of    *)
(* its refund amounts.                                                     *)
(* Violated: a Top-up whose sum passes the largest int64 commits the       *)
(* wrapped value, which is not the sum.                                    *)
(***************************************************************************)
C23_BalanceEquation ==
    \A w \in DOMAIN wallets :
        BalanceReadable(wallets[w]) => BalanceOf(wallets[w]) = LedgerSum(w)

\* What holds instead: the balance is the sum reduced to 64 bits, and so
\* equals the sum whenever no addition has overflowed.
C23_BalanceEquationInt64 ==
    \A w \in DOMAIN wallets :
        BalanceReadable(wallets[w]) => BalanceOf(wallets[w]) = WrapInt64(LedgerSum(w))

(***************************************************************************)
(* C24.  A Refund that passed both idempotency lookups returns before it   *)
(* begins a database transaction, and without changing any state, with     *)
(* not-found when no transaction exists for (merchant, original            *)
(* reference), invalid-refund when the transaction found is not a payment  *)
(* with status success, duplicate-transaction when a refund that has not   *)
(* failed links to it, invalid-amount when the supplied amount is <= 0,    *)
(* and refund-amount-exceeds-original when the supplied amount is greater  *)
(* than the original amount.  When none of these holds the refund goes on, *)
(* and its amount is the supplied amount, or the full original amount when *)
(* none is supplied.                                                       *)
(***************************************************************************)
C24_FindStep ==
    \A p \in Procs :
        (pc[p] = "refFindOriginal" /\ Steps(p)) =>
            LET found == {t \in transactions :
                             /\ t.merchantID = req[p].merchantID
                             /\ t.referenceID = req[p].referenceID}
                successPayment(t) ==
                    /\ t.transactionType = TransactionTypePayment
                    /\ t.status = TransactionStatusSuccess
            IN  /\ UNCHANGED <<wallets, transactions, idempotencyLogs, cache,
                               lockHolder, dbTx>>
                /\ ~dbTx[p].active
                /\ IF found = {}
                   THEN pc'[p] = "done" /\ result'[p].err = ErrNotFound
                   ELSE \E t \in found :
                           IF successPayment(t)
                           THEN pc'[p] = "refCheckExists" /\ loc'[p].origTx = t
                           ELSE pc'[p] = "done" /\ result'[p].err = ErrInvalidRefund

C24_CheckStep ==
    \A p \in Procs :
        (pc[p] = "refCheckExists" /\ Steps(p)) =>
            LET orig == loc[p].origTx
                refunded == \E t \in RefundRows(transactions, orig.id) :
                                t.status # TransactionStatusFailed
                supplied == req[p].hasAmount
                reasons ==
                    {c \in {ErrDuplicateTransaction} : refunded}
                    \cup {c \in {ErrInvalidAmount} : supplied /\ req[p].amount <= 0}
                    \cup {c \in {ErrRefundAmountExceedsOriginal} :
                             supplied /\ req[p].amount > orig.amount}
            IN  /\ UNCHANGED <<wallets, transactions, idempotencyLogs, cache,
                               lockHolder, dbTx>>
                /\ ~dbTx[p].active
                /\ IF reasons # {}
                   THEN pc'[p] = "done" /\ result'[p].err \in reasons
                   ELSE /\ pc'[p] = "refBegin"
                        /\ loc'[p].refundAmount =
                              IF supplied THEN req[p].amount ELSE orig.amount

\* The refund row a commit inserts carries the amount determined above.
C24_AmountStep ==
    \A p \in Procs :
        (pc[p] = "refCommit" /\ CommitSucceeds(p)) =>
            \A t \in InsertedRows :
                /\ IsRefundRow(t)
                /\ \E o \in transactions :
                      /\ o.id = t.originalTransactionID
                      /\ t.amount = IF req[p].hasAmount THEN req[p].amount ELSE o.amount

C24_RefundChecks == [][C24_FindStep /\ C24_CheckStep /\ C24_AmountStep]_vars

\* A refund was committed with the full amount of the payment, and a second
\* one, which had read the payment before that commit, was turned down.
C24_Witness ==
    /\ \E p \in Procs :
          /\ Done(p) /\ result[p].at = "refCheckExists"
          /\ result[p].err = ErrDuplicateTransaction
    /\ \E p \in Procs :
          /\ Done(p) /\ result[p].at = "refCacheSet" /\ ~req[p].hasAmount
          /\ \E o \in transactions :
                /\ o.id = result[p].txn.originalTransactionID
                /\ result[p].txn.amount = o.amount

(***************************************************************************)
(* C25.  Once a Refund of a payment has been committed, a Refund request   *)
(* for the same (merchant, original reference) never credits the wallet    *)
(* again and creates no transaction.  No step of such a request changes    *)
(* the wallets or the transactions, and a request that looks its key up    *)
(* after the commit ends with the stored response of the committed refund  *)
(* or with duplicate-transaction.                                          *)
(***************************************************************************)
RefundCommitted(key) ==
    \E l \in idempotencyLogs :
        /\ l.key = key
        /\ \E t \in transactions : t.id = l.transactionID /\ IsRefundRow(t)

C25_NoSecondCredit ==
    \A p \in Procs :
        (/\ req[p].op = "refund" /\ pc[p] \notin {"idle", "done"}
         /\ RefundCommitted(loc[p].idempKey)
         /\ Steps(p)) =>
            /\ UNCHANGED <<wallets, transactions, idempotencyLogs>>
            /\ \A w \in DOMAIN wallets : BalanceOf(wallets'[w]) = BalanceOf(wallets[w])

C25_LaterRefundStep ==
    \A p \in Procs :
        (/\ pc[p] \in {"refCacheGet", "refIdemGet"}
         /\ RefundCommitted(loc[p].idempKey)
         /\ Steps(p)) =>
            \/ pc[p] = "refCacheGet" /\ pc'[p] = "refIdemGet"
            \/ /\ pc'[p] = "done"
               /\ \/ result'[p].err = ErrDuplicateTransaction
                  \/ /\ result'[p].err = NoError
                     /\ result'[p].txn.id = StoredTransactionID(loc[p].idempKey)
                     /\ IsRefundRow(result'[p].txn)
                     /\ result'[p].txn.amount = StoredResponse(loc[p].idempKey).amount

C25_NoSecondRefund == [][C25_NoSecondCredit /\ C25_LaterRefundStep]_vars

\* A refund request that arrived after the refund was committed and cached
\* has been answered with that refund, and the balance is what the one
\* refund left.
C25_Witness ==
    \E p, q \in Procs :
        /\ p # q
        /\ req[p].op = "refund" /\ Done(p) /\ result[p].at = "refCacheSet"
        /\ req[q].op = "refund" /\ Done(q) /\ result[q].err = NoError
        /\ result[q].at \in {"refCacheGet", "refIdemGet"}
        /\ result[q].txn.id = result[p].txn.id
        /\ Cardinality({t \in transactions : IsRefundRow(t)}) = 1

(***************************************************************************)
(* C26.  Every Top-up with amount > 0 on an existing wallet commits one    *)
(* new top-up transaction and raises the balance by the amount, whatever   *)
(* the balance and whatever was committed before; a Top-up with            *)
(* amount <= 0 returns invalid-amount and a Top-up on a missing wallet     *)
(* returns not-found, both without a write.                                *)
(* Violated: a Top-up whose sum passes the largest int64 commits a balance *)
(* that is lower than before.                                              *)
(***************************************************************************)
C26_Rejections ==
    \A p \in Procs :
        (req'[p].op = "topup" /\ Steps(p) /\ pc'[p] = "done" /\ pc[p] # "topCommit") =>
            /\ UNCHANGED <<wallets, transactions, idempotencyLogs, cache>>
            /\ IF req'[p].amount <= 0
               THEN result'[p].err = ErrInvalidAmount /\ ~dbTx[p].active
               ELSE /\ result'[p].err = ErrNotFound
                    /\ \A w \in DOMAIN wallets :
                          ~(/\ wallets[w].merchantID = req[p].merchantID
                            /\ wallets[w].currency = req[p].currency)

C26_CommitInserts ==
    \A p \in Procs :
        (pc[p] = "topCommit" /\ Steps(p)) =>
            /\ result'[p].err = NoError
            /\ Cardinality(InsertedRows) = 1
            /\ \A t \in InsertedRows :
                  /\ t.transactionType = TransactionTypeTopup
                  /\ t.status = TransactionStatusSuccess
                  /\ t.amount = req[p].amount
                  /\ result'[p].txn = t
            /\ UNCHANGED <<idempotencyLogs, cache>>

C26_CommitAdds ==
    \A p \in Procs :
        (pc[p] = "topCommit" /\ Steps(p)) =>
            \A t \in InsertedRows :
                BalanceOf(wallets'[t.walletID]) = BalanceOf(wallets[t.walletID]) + req[p].amount

C26_TopupAlwaysCredits ==
    [][C26_Rejections /\ C26_CommitInserts /\ C26_CommitAdds]_vars

\* What holds instead: the committed balance is the int64 sum.
C26_CommitAddsInt64 ==
    \A p \in Procs :
        (pc[p] = "topCommit" /\ Steps(p)) =>
            \A t \in InsertedRows :
                BalanceOf(wallets'[t.walletID]) =
                    AddInt64(BalanceOf(wallets[t.walletID]), req[p].amount)

C26_TopupAlwaysCreditsInt64 ==
    [][C26_Rejections /\ C26_CommitInserts /\ C26_CommitAddsInt64]_vars

Damaged(w) == wallets[w].encryptedBalance \in {TamperedBalance, MalformedBalance}

C28_ReadStep ==
    \A p \in Procs :
        (/\ pc[p] \in {"payLockWallet", "refLockWallet", "topLockWallet"}
         /\ \E w \in DOMAIN wallets : Damaged(w)
         /\ Steps(p)) =>
            /\ pc'[p] = "done"
            /\ result'[p].txn = NoTransaction
            /\ result'[p].err =
                  IF wallets[Wallet1].encryptedBalance = TamperedBalance
                  THEN ErrEncryptionFailure ELSE InternalError
            /\ dbTx'[p] = NoDbTx
            /\ \A w \in DOMAIN lockHolder : p \notin lockHolder'[w]
            /\ UNCHANGED <<wallets, transactions, idempotencyLogs, cache>>

C28_NothingWritten ==
    (\E w \in DOMAIN wallets : Damaged(w)) =>
        /\ transactions = {PaidEarlier}
        /\ Cardinality(idempotencyLogs) = 1
        /\ cache = {}
        /\ \A p \in Procs :
              dbTx[p].balanceUpdates = {} /\ dbTx[p].inserts = {}
              /\ dbTx[p].statusUpdates = {} /\ dbTx[p].idempotencyInserts = {}

C28_UnreadableBalanceAborts == []C28_NothingWritten /\ [][C28_ReadStep]_vars

\* A payment, a refund and a top-up have met the damaged balance.
C28_Witness ==
    /\ \E w \in DOMAIN wallets : Damaged(w)
    /\ \E p \in Procs : Done(p) /\ result[p].at = "payLockWallet"
                        /\ result[p].err = ErrEncryptionFailure
    /\ \E p \in Procs : Done(p) /\ result[p].at = "refLockWallet"
                        /\ result[p].err = ErrEncryptionFailure
    /\ \E p \in Procs : Done(p) /\ result[p].at = "topLockWallet"
                        /\ result[p].err = ErrEncryptionFailure

(***************************************************************************)
(* C29.  A request rejected for a missing header, an expired timestamp, an *)
(* unknown access key or an inactive merchant leaves the nonce store       *)
(* unchanged, and the store was never called for it.  A request whose      *)
(* nonce was claimed and that is then rejected with invalid-signature      *)
(* keeps its nonce consumed: the rejection leaves the store unchanged, the *)
(* entry stays until the ttl has passed, and a CheckAndSet call for the    *)
(* same (merchant, nonce) that returns within the ttl, without a Redis     *)
(* error, is rejected with nonce-used.                                     *)
(***************************************************************************)
C29_EarlyRejection ==
    \A a \in AuthTasks :
        (auth[a].pc = "idle" /\ auth'[a].pc # "idle") =>
            /\ UNCHANGED nonces
            /\ ~auth'[a].called
            /\ auth'[a].pc = "done" =>
                  auth'[a].outcome \in {ErrInvalidAccessKey, ErrTimestampExpired,
                                        ErrMerchantSuspended}

C29_RejectionKeepsNonce ==
    \A a \in AuthTasks :
        (auth[a].pc = "verify" /\ auth'[a].pc = "done") => UNCHANGED nonces

\* The claim of a request turned away for its signature, while it lasts.
ConsumedBy(a) ==
    /\ auth[a].outcome = ErrInvalidSignature
    /\ auth[a].isNew
    /\ now < auth[a].at + (120 \div TimeUnit)

C29_NonceConsumed ==
    \A a \in AuthTasks :
        /\ auth[a].outcome \in {ErrInvalidAccessKey, ErrTimestampExpired,
                                ErrMerchantSuspended} => ~auth[a].called
        /\ ConsumedBy(a) =>
              \E e \in nonces :
                  e.key = KeyOf(a) /\ e.expiresAt = auth[a].at + (120 \div TimeUnit)

C29_ReplayStep ==
    \A a, b \in AuthTasks :
        (a # b /\ ConsumedBy(a) /\ Claims(b) /\ KeyOf(b) = KeyOf(a)) =>
            /\ RejectedWith(b, "SEC_004")
            /\ UNCHANGED nonces

C29_NonceStaysConsumed ==
    /\ []C29_NonceConsumed
    /\ [][C29_EarlyRejection /\ C29_RejectionKeepsNonce /\ C29_ReplayStep]_vars

\* A request with a signature over another body claimed its nonce and was
\* rejected for the signature; a second request of the same merchant with
\* that nonce, correctly signed, was rejected for the nonce.
C29_Witness ==
    \E a, b \in AuthTasks :
        /\ a # b
        /\ auth[a].outcome = ErrInvalidSignature /\ auth[a].isNew
        /\ auth[b].outcome = ErrNonceUsed /\ ~auth[b].nonceErr
        /\ KeyOf(a) = KeyOf(b)
        /\ SignatureValid(auth[b].request)
        /\ auth[b].at > auth[a].at

(***************************************************************************)
(* C30.  Inside each ledger transaction the steps occur in the order lock  *)
(* the wallet row, read and decrypt the balance, check, update the balance *)
(* and insert the transaction, insert the idempotency record, commit.  The *)
(* balance used for the arithmetic is read under the row lock: from the    *)
(* read to the commit the task holds the lock and the row is the one it    *)
(* read.  No write is issued before the check has passed: a task with a    *)
(* write pending holds the lock, a payment among them has read a balance   *)
(* that covers its amount, and an idempotency record is pending only       *)
(* together with the transaction it names.  Nothing is visible before the  *)
(* commit.                                                                 *)
(***************************************************************************)
BeginAt == {"payBegin", "refBegin", "topBegin"}
LockAt == {"payLockWallet", "refLockWallet", "topLockWallet"}
PersistAt == {"payPersist", "refPersist", "topPersist"}
CommitAt == {"payCommit", "refCommit", "topCommit"}

HasWrites(tx) ==
    tx.balanceUpdates # {} \/ tx.inserts # {} \/ tx.statusUpdates # {}
        \/ tx.idempotencyInserts # {}

C30_ReadUnderLock ==
    \A p \in Procs :
        /\ pc[p] \in PersistAt \cup CommitAt =>
              /\ dbTx[p].active
              /\ lockHolder[loc[p].wallet.id] = {p}
              /\ wallets[loc[p].wallet.id] = loc[p].wallet
              /\ req[p].op = "payment" => BalanceOf(loc[p].wallet) >= req[p].amount
        /\ HasWrites(dbTx[p]) =>
              /\ pc[p] \in CommitAt
              /\ \A u \in dbTx[p].balanceUpdates : u.walletID = loc[p].wallet.id
              /\ \A l \in dbTx[p].idempotencyInserts :
                    \E t \in dbTx[p].inserts : t.id = l.transactionID
              /\ dbTx[p].inserts # {} /\ dbTx[p].balanceUpdates # {}
        /\ pc[p] \in LockAt => dbTx[p].active /\ ~HasWrites(dbTx[p])
        /\ \A w \in DOMAIN lockHolder :
              p \in lockHolder[w] => pc[p] \in PersistAt \cup CommitAt

C30_OrderStep ==
    \A p \in Procs :
        Steps(p) =>
            /\ pc'[p] \in LockAt => pc[p] \in BeginAt
            /\ pc'[p] \in PersistAt => pc[p] \in LockAt
            /\ pc'[p] \in CommitAt => pc[p] \in PersistAt
            /\ pc[p] \notin CommitAt =>
                  UNCHANGED <<wallets, transactions, idempotencyLogs>>
            /\ pc[p] \in CommitAt =>
                  /\ RowIDs(InsertedRows) = RowIDs(dbTx[p].inserts)
                  /\ idempotencyLogs' = idempotencyLogs \cup dbTx[p].idempotencyInserts
                  /\ \A u \in dbTx[p].balanceUpdates :
                        wallets'[u.walletID].encryptedBalance = u.encryptedBalance
                  /\ \A w \in DOMAIN lockHolder : p \notin lockHolder'[w]
                  /\ ~dbTx'[p].active

C30_LockReadCheckWriteCommit == []C30_ReadUnderLock /\ [][C30_OrderStep]_vars

\* A payment has its writes pending while a second request waits for the
\* row lock it holds.
C30_Witness ==
    \E p, q \in Procs :
        /\ pc[p] = "payCommit" /\ dbTx[p].idempotencyInserts # {}
        /\ pc[q] \in LockAt
        /\ \E w \in DOMAIN wallets :
              lockHolder[w] = {p} /\ BalanceOf(wallets[w]) >= req[p].amount

(***************************************************************************)
(* C31.  At every reachable state every entry of the idempotency cache has *)
(* a committed record in the durable idempotency log under the same key    *)
(* with the same response bytes.  The cache is written only by a request   *)
(* that has committed, never by one that rolled back: a step that changes  *)
(* the cache is the step after a commit, and it stores the response the    *)
(* commit recorded.                                                        *)
(***************************************************************************)
C31_CacheBackedByLog ==
    \A c \in cache :
        \E l \in idempotencyLogs : l.key = c.key /\ l.responseJSON = c.value

C31_CacheWriteStep ==
    cache' # cache =>
        \E p \in Procs :
            /\ pc[p] \in {"payCacheSet", "refCacheSet"}
            /\ pc'[p] = "done" /\ result'[p].err = NoError
            /\ ~dbTx[p].active
            /\ \E l \in idempotencyLogs :
                  /\ l.key = loc[p].idempKey
                  /\ l.transactionID = loc[p].txn.id
                  /\ cache' = {c \in cache : c.key # l.key}
                                \cup {[key |-> l.key, value |-> l.responseJSON]}

C31_CacheOnlyAfterCommit == []C31_CacheBackedByLog /\ [][C31_CacheWriteStep]_vars

\* A payment and its refund are cached, and a request that failed at its
\* commit has left nothing behind.
C31_Witness ==
    /\ Cardinality(cache) = 2
    /\ \E p \in Procs :
          /\ Done(p) /\ result[p].err = InternalError
          /\ result[p].at \in {"payCommit", "refCommit"}

(***************************************************************************)
(* Observations of the idempotency keys.                                   *)
(***************************************************************************)
\* A request that returns a transaction returns one of its own kind.
OwnKindStep ==
    \A p \in Procs :
        (Steps(p) /\ pc'[p] = "done" /\ result'[p].err = NoError) =>
            /\ req[p].op = "refund" => IsRefundRow(result'[p].txn)
            /\ req[p].op = "payment" => IsPaymentRow(result'[p].txn)

(***************************************************************************)
(* C32.  The idempotency keys of payments and of refunds are disjoint: for *)
(* one merchant no payment reference and no refund original reference     *)
(* give the same key, so a Refund that returns without error returns a     *)
(* refund and a Payment that returns without error returns a payment,      *)
(* never the stored response of the other kind.                            *)
(* Violated: the payment reference "refund:A" and the refund of reference  *)
(* "A" share the key "m1:refund:A"; after the payment the refund of A is   *)
(* answered with that payment and refunds nothing.                         *)
(***************************************************************************)
C32_KeySpacesDisjoint == [][OwnKindStep]_vars

(***************************************************************************)
(* C33.  BuildCanonicalString is injective on (method, path, timestamp,    *)
(* nonce, body): two requests that differ in nonce or body never yield the *)
(* same canonical string, so a signature that is valid for one request is  *)
(* never valid for a request with a different nonce or a different body:   *)
(* two requests accepted with one signature have the same nonce and body.  *)
(* Violated: nonce "n1|x" with body "{}" and nonce "n1" with body "x|{}"   *)
(* give one canonical string, and both are accepted with one signature.    *)
(***************************************************************************)
C33_SignatureBindsNonceAndBody ==
    \A a, b \in AuthTasks :
        (/\ auth[a].next /\ auth[b].next
         /\ auth[a].request.signature = auth[b].request.signature
         /\ auth[a].merchantID = auth[b].merchantID) =>
            /\ auth[a].request.nonce = auth[b].request.nonce
            /\ auth[a].request.body = auth[b].request.body

(***************************************************************************)
(* C34.  When the nonce store returns no errors, the authenticity pipeline *)
(* never accepts the same signed request (same merchant, timestamp, nonce  *)
(* and body) twice: when the nonce entry of an accepted request has        *)
(* expired, 120 s after its claim, the timestamp of the request is outside *)
(* the accepted window |now - timestamp| <= 60 s.                          *)
(* Violated: a request whose timestamp is 60 s ahead of the clock at its   *)
(* claim is exactly 60 s old when its nonce entry expires, and a drift of  *)
(* exactly 60 s is accepted.                                               *)
(***************************************************************************)
SameSignedRequest(a, b) ==
    /\ auth[a].merchantID = auth[b].merchantID
    /\ auth[a].request.timestamp = auth[b].request.timestamp
    /\ auth[a].request.nonce = auth[b].request.nonce
    /\ auth[a].request.body = auth[b].request.body
    /\ auth[a].request.signature = auth[b].request.signature

C34_NeverAcceptedTwice ==
    \A a, b \in AuthTasks :
        (/\ a # b
         /\ auth[a].next /\ ~auth[a].nonceErr
         /\ auth[b].next /\ ~auth[b].nonceErr) =>
            ~SameSignedRequest(a, b)

\* The arithmetic behind it, which fails as well: once the entry of an
\* accepted request has expired, its timestamp is outside the window.
C34_WindowClosedAtExpiry ==
    \A a \in AuthTasks :
        (auth[a].next /\ ~auth[a].nonceErr /\ now >= auth[a].at + (120 \div TimeUnit)) =>
            DriftSeconds(now, auth[a].request.timestamp) > 60


(***************************************************************************)
(* C35.  Merchants are isolated.  A step of an operation served for one    *)
(* merchant never changes the wallet rows, the transactions, the           *)
(* idempotency records or the cached responses of another merchant; the    *)
(* same reference used by two merchants is processed independently; a      *)
(* successful operation returns a transaction of its own merchant, and a   *)
(* refund row always reverses a payment of its own merchant on that        *)
(* payment's wallet.                                                       *)
(***************************************************************************)
\* What the store holds for one merchant.
KeysOfMerchant(m) ==
    {BuildIdempotencyKey(m, "A"), BuildRefundIdempotencyKey(m, "A")}

HeldFor(m, w, rows, logs, entries) ==
    <<{x \in DOMAIN w : w[x].merchantID = m},
      [x \in {y \in DOMAIN w : w[y].merchantID = m} |-> w[x]],
      {t \in rows : t.merchantID = m \/ (t.walletID \in DOMAIN w /\ w[t.walletID].merchantID = m)},
      {l \in logs : l.key \in KeysOfMerchant(m)},
      {c \in entries : c.key \in KeysOfMerchant(m)}>>

C35_ForeignStep ==
    \A p \in Procs, m \in TenantMerchants :
        (Steps(p) /\ req'[p].merchantID # m) =>
            HeldFor(m, wallets', transactions', idempotencyLogs', cache')
                = HeldFor(m, wallets, transactions, idempotencyLogs, cache)

C35_OwnResponse ==
    /\ \A p \in Procs :
          (Done(p) /\ result[p].err = NoError) =>
              result[p].txn.merchantID = req[p].merchantID
    /\ \A t \in transactions :
          /\ wallets[t.walletID].merchantID = t.merchantID
          /\ IsRefundRow(t) =>
                \E o \in transactions :
                    /\ o.id = t.originalTransactionID
                    /\ o.merchantID = t.merchantID
                    /\ o.walletID = t.walletID

C35_MerchantsIsolated == []C35_OwnResponse /\ [][C35_ForeignStep]_vars

\* Both merchants paid under reference A, the first refunded its payment,
\* and the second merchant's payment and balance stand.
C35_Witness ==
    /\ \E p \in Procs :
          /\ Done(p) /\ req[p].op = "refund" /\ req[p].merchantID = Merchant1
          /\ result[p].err = NoError /\ result[p].at = "refCacheSet"
    /\ \E t \in transactions :
          /\ IsPaymentRow(t) /\ t.merchantID = Merchant2 /\ t.referenceID = "A"
          /\ t.status = TransactionStatusSuccess
    /\ BalanceOf(wallets[Wallet2]) = 1
    /\ BalanceOf(wallets[Wallet1]) = 2


(***************************************************************************)
(* C36.  A webhook delivery is started for every Payment or Refund request *)
(* that returns success, idempotent replays included, so one transaction   *)
(* can have several deliveries and delivery logs.  As stated it fails:     *)
(* EnqueueWebhook starts nothing for a merchant without a webhook URL or   *)
(* when the merchant lookup or the secret's decryption fails, and the      *)
(* handler drops that error.  What holds: the handler calls EnqueueWebhook *)
(* with the returned transaction before it answers any successful Payment  *)
(* or Refund, replay or not, and every delivery that call starts belongs   *)
(* to that transaction; a replay that finds a URL starts one more delivery *)
(* with its own log for the same transaction.                              *)
(***************************************************************************)
Succeeded(p) ==
    /\ response[p].sent /\ response[p].body # {}
    /\ req[p].op \in {"payment", "refund"}

C36_EnqueuedBeforeAnswer ==
    \A p \in Procs :
        /\ Succeeded(p) => response[p].enqueued
        /\ delivery[p].pc # "none" =>
              /\ response[p].enqueued /\ ~response[p].enqueueErr
              /\ result[p].err = NoError
              /\ delivery[p].log.transactionID = result[p].txn.id
              /\ delivery[p].log.merchantID = result[p].txn.merchantID
        /\ \A row \in webhookLogs :
              \E q \in Procs : delivery[q].pc # "none" /\ delivery[q].log.id = row.id
                                  /\ row.transactionID = result[q].txn.id

C36_CallStep ==
    \A p \in Procs :
        (~response[p].enqueued /\ response'[p].enqueued) =>
            /\ result[p].err = NoError
            /\ ~response[p].sent
            /\ \A q \in Procs \ {p} : delivery'[q] = delivery[q]
            /\ \/ delivery'[p] = delivery[p]
               \/ delivery[p].pc = "none" /\ delivery'[p].pc = "spawned"

PartialRefunds(rows, t) == {f \in RefundRows(rows, t.id) : f.amount < t.amount}

C37_RefundedWithinOriginal ==
    \A t \in transactions :
        IsPaymentRow(t) =>
            /\ TotalAmount(RefundRows(transactions, t.id)) <= t.amount
            /\ \A f \in RefundRows(transactions, t.id) : f.amount > 0
            /\ RefundRows(transactions, t.id) # {} =>
                  t.status = TransactionStatusReversed /\ ~IsRefundable(t)

C37_RemainderStep ==
    \A t \in transactions :
        (IsPaymentRow(t) /\ PartialRefunds(transactions, t) # {}) =>
            /\ t \in transactions'
            /\ RefundRows(transactions', t.id) = RefundRows(transactions, t.id)
            /\ \A p \in Procs :
                  (/\ req[p].op = "refund" /\ req[p].referenceID = t.referenceID
                   /\ pc[p] # "done" /\ pc'[p] = "done"
                   /\ result'[p].err = NoError) =>
                      result'[p].txn.id \in RowIDs(RefundRows(transactions, t.id))

C37_PartialRefundIsFinal ==
    []C37_RefundedWithinOriginal /\ [][C37_RemainderStep]_vars

\* A payment of 2 was refunded 1, and a refund request that came after the
\* commit was refused: the wallet holds 1 less than before the payment.
C37_Witness ==
    /\ \E t \in transactions :
          /\ IsPaymentRow(t) /\ t.amount = 2
          /\ \E f \in PartialRefunds(transactions, t) : f.amount = 1
          /\ \E p \in Procs :
                /\ Done(p) /\ req[p].op = "refund" /\ req[p].referenceID = t.referenceID
                /\ result[p].err = ErrInvalidRefund
    /\ BalanceOf(wallets[Wallet1]) = given.balance - 1


(***************************************************************************)
(* C38.  For a finite set of concurrent operations, every operation that   *)
(* began a database transaction eventually commits or rolls back and       *)
(* returns, with its lock released.  A transaction holds at most one       *)
(* wallet row lock, no row is locked by two transactions, the lock is      *)
(* taken before any other lock or write of the transaction, and the holder *)
(* of a lock never waits for another: there is no deadlock.                *)
(***************************************************************************)
LocksOf(p) == {w \in DOMAIN lockHolder : p \in lockHolder[w]}

C38_OneLock ==
    /\ \A w \in DOMAIN lockHolder : Cardinality(lockHolder[w]) <= 1
    /\ \A p \in Procs :
          /\ Cardinality(LocksOf(p)) <= 1
          /\ LocksOf(p) # {} => dbTx[p].active
          /\ HasWrites(dbTx[p]) => LocksOf(p) # {}
          /\ LocksOf(p) # {} => ENABLED Runs(p)
          /\ dbTx[p].active => pc[p] \notin {"idle", "done"}

C38_LockFirstStep ==
    \A p \in Procs :
        /\ LocksOf(p)' # LocksOf(p) =>
              \/ LocksOf(p) = {} /\ ~HasWrites(dbTx[p]) /\ dbTx[p].active
              \/ LocksOf(p)' = {} /\ ~dbTx'[p].active
        /\ (HasWrites(dbTx'[p]) /\ ~HasWrites(dbTx[p])) => LocksOf(p) # {}

C38_Returns ==
    \A p \in Procs :
        dbTx[p].active ~> (Done(p) /\ ~dbTx[p].active /\ LocksOf(p) = {})

C38_TransactionsTerminate ==
    []C38_OneLock /\ [][C38_LockFirstStep]_vars /\ C38_Returns

\* Three operations that began a transaction have returned, one of them
\* rolled back at its writes after waiting for the row lock, and every
\* lock is free.
C38_Witness ==
    /\ \A p \in Procs :
          /\ Done(p) /\ ~dbTx[p].active /\ LocksOf(p) = {}
          /\ result[p].at \in PersistAt \cup {"payCacheSet", "refCacheSet", "topCommit"}
    /\ \E p \in Procs : result[p].at \in PersistAt /\ result[p].err = InternalError
    /\ \E p \in Procs : result[p].err = NoError


(***************************************************************************)
(* C39.  Balance arithmetic never wraps: the commit of a Top-up or of a    *)
(* Refund stores the balance B + amount taken in the integers, which is at *)
(* most the largest int64; a sum beyond it is never stored.  Violated: the *)
(* sum is taken in int64 without a check, and a Top-up whose sum passes    *)
(* the largest int64 commits the wrapped, negative balance.                *)
(***************************************************************************)
C39_CommitStep ==
    \A p \in Procs :
        (pc[p] \in {"topCommit", "refCommit"} /\ Steps(p)) =>
            LET w == loc[p].wallet.id
                B == BalanceOf(wallets[w])
            IN  /\ B + loc[p].txn.amount <= MaxInt64
                /\ BalanceOf(wallets'[w]) = B + loc[p].txn.amount

C39_BalanceNeverWraps == [][C39_CommitStep]_vars

=============================================================================
